---- MODULE Spec2Model ----
(***************************************************************************)
(* A model of the markdown-to-HTML core of site-generator                  *)
(* (src/src/textnode.py, src/src/htmlnode.py, src/src/main.py).            *)
(*                                                                         *)
(* A Python str is a sequence of characters; a character is a one-letter   *)
(* TLA+ string.  The backquote cannot be written inside a TLA+ string      *)
(* literal, so the character U+0060 is the atom BACKTICK.                  *)
(* A Python Optional is a sequence of length 0 (None) or 1 (the value).    *)
(* A call is the record Return(v) or Raise(e).                             *)
(***************************************************************************)
EXTENDS Integers, Sequences, FiniteSets, TLC

VARIABLES
    pc,           \* the statement about to run, or "done" / "raised"
    text,         \* text_to_textnodes: its argument
    nodes,        \* text_to_textnodes: its local nodes
    block,        \* _block_to_html_node: its argument
    block_type,   \* _block_to_html_node: its local block_type
    markdown,     \* markdown_to_html_node: its argument
    blocks,       \* markdown_to_html_node: its local blocks
    block_nodes,  \* markdown_to_html_node: the part of block_nodes built so far
    result,       \* the value the call returned (None before it returns)
    html,         \* main.py generate_page: html_content (None before it is set)
    error,        \* the exception the call raised (None if none)
    call          \* a function called on its own: its name and arguments

vars == <<pc, text, nodes, block, block_type, markdown, blocks, block_nodes,
          result, html, error, call>>

----------------------------------------------------------------------------
(* Python values *)

BACKTICK == "BACKTICK"

None == <<>>

Some(v) == <<v>>

\* F applied to the value of x: x is evaluated once, as Python evaluates the
\* argument of a call or the right-hand side of an assignment
Apply(F(_), x) == CHOOSE y \in {F(v) : v \in {x}} : TRUE

\* A call either returns a value or raises.
Return(v) == [ok |-> TRUE, value |-> Some(v), error |-> None]

Raise(e) == [ok |-> FALSE, value |-> None, error |-> Some(e)]

\* The call r, then F on the value it returned; the exception it raised
\* propagates.
Then(r, F(_)) == Apply(LAMBDA c : IF c.ok THEN F(c.value[1]) ELSE c, r)

\* The control characters "\x0b", "\x1c", "\x1d", "\x1e" and "\x1f"
VT == ""
FS == ""
GS == ""
RS == ""
US == ""

\* The characters str.strip() removes: those for which str.isspace() is true.
\* A character outside ASCII is written as its code point.
Whitespace ==
    {" ", "\t", "\n", "\r", "\f", VT, FS, GS, RS, US,
     "U+0085", "U+00A0", "U+1680", "U+2000", "U+2001", "U+2002", "U+2003",
     "U+2004", "U+2005", "U+2006", "U+2007", "U+2008", "U+2009", "U+200A",
     "U+2028", "U+2029", "U+202F", "U+205F", "U+3000"}

\* ValueError("empty separator"), raised by str.split and str.split(sep, 1)
EmptySeparator == [exc |-> "ValueError", msg |-> "empty separator", delimiter |-> <<>>]

Min(S) == Apply(LAMBDA T : CHOOSE x \in T : \A y \in T : x <= y, S)

\* s[n:]
Drop(s, n) == SubSeq(s, n + 1, Len(s))

\* str.startswith
StartsWith(s, p) == Len(p) <= Len(s) /\ SubSeq(s, 1, Len(p)) = p

\* str.endswith
EndsWith(s, p) == Len(p) <= Len(s) /\ SubSeq(s, Len(s) - Len(p) + 1, Len(s)) = p

\* str.find(sub, from), 1-based; 0 when sub does not occur at or after from
FindFrom(s, sub, from) ==
    Apply(LAMBDA hits : IF hits = {} THEN 0 ELSE Min(hits),
          {i \in from..(Len(s) - Len(sub) + 1) : SubSeq(s, i, i + Len(sub) - 1) = sub})

\* str.find, 1-based; 0 when sub does not occur
Find(s, sub) == FindFrom(s, sub, 1)

\* The pieces of s from index from on
RECURSIVE SplitFrom(_, _, _)
SplitFrom(s, sep, from) ==
    IF sep = <<>> THEN Raise(EmptySeparator)
    ELSE Apply(LAMBDA i : IF i = 0 THEN <<SubSeq(s, from, Len(s))>>
                          ELSE <<SubSeq(s, from, i - 1)>>
                               \o SplitFrom(s, sep, i + Len(sep)),
               FindFrom(s, sep, from))

\* str.split(sep): the pieces between the non-overlapping occurrences of sep,
\* found left to right; the empty separator raises
split(s, sep) == Apply(LAMBDA v : SplitFrom(v, sep, 1), s)

\* str.split(sep, 1)
split1(s, sep) ==
    IF sep = <<>> THEN Raise(EmptySeparator)
    ELSE Apply(LAMBDA i : IF i = 0 THEN <<s>>
                          ELSE <<SubSeq(s, 1, i - 1), Drop(s, i - 1 + Len(sep))>>,
               Find(s, sep))

\* The concatenation of parts from index i on, sep between them
RECURSIVE JoinFrom(_, _, _)
JoinFrom(sep, parts, i) ==
    IF i > Len(parts) THEN <<>>
    ELSE IF i = Len(parts) THEN parts[i]
    ELSE parts[i] \o sep \o JoinFrom(sep, parts, i + 1)

\* sep.join(parts)
join(sep, parts) == Apply(LAMBDA v : JoinFrom(sep, v, 1), parts)

\* str.replace(old, new); the empty old matches before every character and
\* at the end
replace(s, old, new) ==
    IF old = <<>> THEN new \o join(<<>>, [i \in 1..Len(s) |-> <<s[i]>> \o new])
    ELSE join(new, split(s, old))

\* str.lstrip(chars)
RECURSIVE lstrip(_, _)
lstrip(s, chars) ==
    Apply(LAMBDA v : IF v # <<>> /\ v[1] \in chars THEN lstrip(Tail(v), chars) ELSE v, s)

\* str.rstrip(chars)
RECURSIVE rstrip(_, _)
rstrip(s, chars) ==
    Apply(LAMBDA v : IF v # <<>> /\ v[Len(v)] \in chars
                     THEN rstrip(SubSeq(v, 1, Len(v) - 1), chars) ELSE v, s)

\* str.strip()
strip(s) == rstrip(lstrip(s, Whitespace), Whitespace)

\* the concatenation of a list of lists
Flatten(ss) == join(<<>>, ss)

\* A list comprehension over calls: the first exception raised, else the list
\* of the values returned.
Collect(rs) ==
    Apply(LAMBDA cs :
            Apply(LAMBDA bad : IF bad # {} THEN cs[Min(bad)]
                               ELSE Return([i \in 1..Len(cs) |-> cs[i].value[1]]),
                  {i \in 1..Len(cs) : ~cs[i].ok}),
          rs)

----------------------------------------------------------------------------
(* textnode.py: TextType, TextNode *)

TEXT == "text"
BOLD == "bold"
ITALIC == "italic"
CODE == "code"
LINK == "link"
IMAGE == "image"

TextType == {TEXT, BOLD, ITALIC, CODE, LINK, IMAGE}

TextNode(t, text_type, url) == [text |-> t, text_type |-> text_type, url |-> url]

\* The delimiters text_to_textnodes passes to split_nodes_delimiter.
BoldDelimiter == <<"*", "*">>
ItalicDelimiter == <<"_">>
CodeDelimiter == <<BACKTICK>>

\* ValueError(f"Invalid markdown: unclosed delimiter {delimiter!r}")
UnclosedDelimiter(delimiter) ==
    [exc |-> "ValueError", msg |-> "Invalid markdown: unclosed delimiter",
     delimiter |-> delimiter]

----------------------------------------------------------------------------
(* textnode.py: split_nodes_delimiter *)

\* DelimiterEmits without the part after the last delimiter
DelimiterEmits_DropTail(node, delimiter, text_type) ==
    IF node.text_type # TEXT THEN <<node>>
    ELSE Apply(LAMBDA parts :
                 IF Len(parts) = 1 THEN <<node>>
                 ELSE [i \in 1..(Len(parts) - 1) |->
                          IF (i - 1) % 2 = 0 THEN TextNode(parts[i], TEXT, None)
                          ELSE TextNode(parts[i], text_type, None)],
               split(node.text, delimiter))

\* DelimiterEmits that drops the empty parts
DelimiterEmits_DropEmpty(node, delimiter, text_type) ==
    IF node.text_type # TEXT THEN <<node>>
    ELSE Apply(LAMBDA parts :
                 IF Len(parts) = 1 THEN <<node>>
                 ELSE SelectSeq([i \in 1..Len(parts) |->
                          IF (i - 1) % 2 = 0 THEN TextNode(parts[i], TEXT, None)
                          ELSE TextNode(parts[i], text_type, None)],
                        LAMBDA n : n.text # <<>>),
               split(node.text, delimiter))

\* What the loop body appends for one node (lines 56-71), when it does not
\* raise the unclosed-delimiter error; the exception of str.split when the
\* delimiter is empty.
DelimiterEmits(node, delimiter, text_type) ==
    IF node.text_type # TEXT THEN <<node>>
    ELSE IF delimiter = <<>> THEN split(node.text, delimiter)
    ELSE Apply(LAMBDA parts :
                 IF Len(parts) = 1 THEN <<node>>
                 ELSE [i \in 1..Len(parts) |->
                          IF (i - 1) % 2 = 0 THEN TextNode(parts[i], TEXT, None)
                          ELSE TextNode(parts[i], text_type, None)],
               split(node.text, delimiter))

\* DelimiterRaises that sees an unclosed delimiter only when it is the one
\* delimiter of the node
DelimiterRaises_SingleOnly(node, delimiter) ==
    /\ node.text_type = TEXT
    /\ Apply(LAMBDA parts : Len(parts) = 2, split(node.text, delimiter))

\* The loop body raises the unclosed-delimiter error on this node (lines 63-66).
DelimiterRaises(node, delimiter) ==
    /\ node.text_type = TEXT
    /\ delimiter # <<>>
    /\ Apply(LAMBDA parts : Len(parts) # 1 /\ Len(parts) % 2 = 0,
             split(node.text, delimiter))

split_nodes_delimiter(old_nodes, delimiter, text_type) ==
    Apply(LAMBDA ns :
            IF delimiter = <<>> /\ \E i \in 1..Len(ns) : ns[i].text_type = TEXT
            THEN Raise(EmptySeparator)
            ELSE IF \E i \in 1..Len(ns) : DelimiterRaises(ns[i], delimiter)
            THEN Raise(UnclosedDelimiter(delimiter))
            ELSE Return(Flatten([i \in 1..Len(ns) |->
                                    DelimiterEmits(ns[i], delimiter, text_type)])),
          old_nodes)

----------------------------------------------------------------------------
(* textnode.py: the image and link patterns *)

NoMatchAt == [ok |-> FALSE, g1 |-> <<>>, g2 |-> <<>>, end |-> 0]

\* The least index >= from of a character of s that is in set; 0 if none.
FirstIn(s, from, set) ==
    Apply(LAMBDA hits : IF hits = {} THEN 0 ELSE Min(hits),
          {i \in from..Len(s) : s[i] \in set})

\* \[([^\[\]]*)\]\(([^\(\)]*)\) tried with its "[" at index q of s: the match
\* (its two groups and the index of its last character), or ok = FALSE.
BracketMatch(s, q) ==
    IF ~(q <= Len(s) /\ s[q] = "[") THEN NoMatchAt
    ELSE Apply(LAMBDA j :
            IF ~(j # 0 /\ s[j] = "]" /\ j + 1 <= Len(s) /\ s[j + 1] = "(") THEN NoMatchAt
            ELSE Apply(LAMBDA k :
                    IF ~(k # 0 /\ s[k] = ")") THEN NoMatchAt
                    ELSE [ok |-> TRUE, g1 |-> SubSeq(s, q + 1, j - 1),
                          g2 |-> SubSeq(s, j + 2, k - 1), end |-> k],
                    FirstIn(s, j + 2, {"(", ")"})),
            FirstIn(s, q + 1, {"[", "]"}))

\* r"!\[([^\[\]]*)\]\(([^\(\)]*)\)" tried at index p
ImageAt(s, p) ==
    IF p <= Len(s) /\ s[p] = "!" THEN BracketMatch(s, p + 1) ELSE NoMatchAt

\* LinkAt without the lookbehind
LinkAt_NoLookbehind(s, p) == BracketMatch(s, p)

\* r"(?<!!)\[([^\[\]]*)\]\(([^\(\)]*)\)" tried at index p
LinkAt(s, p) ==
    IF p = 1 \/ (p > 1 /\ p <= Len(s) /\ s[p - 1] # "!") THEN BracketMatch(s, p)
    ELSE NoMatchAt

PatternAt(kind, s, p) == IF kind = IMAGE THEN ImageAt(s, p) ELSE LinkAt(s, p)

\* finditer that stops after the first match
finditer_FirstOnly(kind, s, from) ==
    Apply(LAMBDA hits :
            IF hits = {} THEN <<>>
            ELSE Apply(LAMBDA m :
                         <<[start |-> Min(hits), end |-> m.end, g1 |-> m.g1, g2 |-> m.g2]>>,
                       PatternAt(kind, s, Min(hits))),
          {p \in from..Len(s) : PatternAt(kind, s, p).ok})

\* re.finditer(pattern, s): the non-overlapping matches, left to right, scanning
\* from index from.  Each match: start and end (first and last index), groups.
RECURSIVE finditer(_, _, _)
finditer(kind, s, from) ==
    Apply(LAMBDA hits :
            IF hits = {} THEN <<>>
            ELSE Apply(LAMBDA m :
                         <<[start |-> Min(hits), end |-> m.end, g1 |-> m.g1, g2 |-> m.g2]>>
                         \o finditer(kind, s, m.end + 1),
                       PatternAt(kind, s, Min(hits))),
          {p \in from..Len(s) : PatternAt(kind, s, p).ok})

\* re.findall(pattern, text) for the image pattern
extract_markdown_images(s) ==
    Apply(LAMBDA ms : [i \in 1..Len(ms) |-> <<ms[i].g1, ms[i].g2>>], finditer(IMAGE, s, 1))

\* re.findall(pattern, text) for the link pattern
extract_markdown_links(s) ==
    Apply(LAMBDA ms : [i \in 1..Len(ms) |-> <<ms[i].g1, ms[i].g2>>], finditer(LINK, s, 1))

----------------------------------------------------------------------------
(* textnode.py: split_nodes_image, split_nodes_link *)

\* PatternEmits that appends the text before a match and after the last match
\* even when it is empty
RECURSIVE PatternEmits_KeepEmpty(_, _, _, _, _)
PatternEmits_KeepEmpty(node, kind, ms, i, last_end) ==
    IF i > Len(ms)
    THEN IF last_end = 0 THEN <<node>>
         ELSE <<TextNode(Drop(node.text, last_end), TEXT, None)>>
    ELSE <<TextNode(SubSeq(node.text, last_end + 1, ms[i].start - 1), TEXT, None),
           TextNode(ms[i].g1, kind, Some(ms[i].g2))>>
         \o PatternEmits_KeepEmpty(node, kind, ms, i + 1, ms[i].end)

\* PatternEmits that drops the text after the last match
RECURSIVE PatternEmits_DropTail(_, _, _, _, _)
PatternEmits_DropTail(node, kind, ms, i, last_end) ==
    IF i > Len(ms)
    THEN IF last_end = 0 THEN <<node>> ELSE <<>>
    ELSE (IF SubSeq(node.text, last_end + 1, ms[i].start - 1) # <<>>
          THEN <<TextNode(SubSeq(node.text, last_end + 1, ms[i].start - 1), TEXT, None)>>
          ELSE <<>>)
         \o <<TextNode(ms[i].g1, kind, Some(ms[i].g2))>>
         \o PatternEmits_DropTail(node, kind, ms, i + 1, ms[i].end)

\* The inner loop and the tail of the loop body (lines 96-107, 120-131):
\* what is appended from match i on, last_end being the end of match i - 1.
RECURSIVE PatternEmits(_, _, _, _, _)
PatternEmits(node, kind, ms, i, last_end) ==
    IF i > Len(ms)
    THEN IF last_end < Len(node.text)
         THEN <<TextNode(Drop(node.text, last_end), TEXT, None)>>
         ELSE IF last_end = 0 THEN <<node>> ELSE <<>>
    ELSE (IF SubSeq(node.text, last_end + 1, ms[i].start - 1) # <<>>
          THEN <<TextNode(SubSeq(node.text, last_end + 1, ms[i].start - 1), TEXT, None)>>
          ELSE <<>>)
         \o <<TextNode(ms[i].g1, kind, Some(ms[i].g2))>>
         \o PatternEmits(node, kind, ms, i + 1, ms[i].end)

\* PatternSplit that scans a span of any type
PatternSplit_AnySpan(node, kind) ==
    Apply(LAMBDA ms : PatternEmits(node, kind, ms, 1, 0), finditer(kind, node.text, 1))

\* The loop body of split_nodes_image / split_nodes_link for one node
PatternSplit(node, kind) ==
    IF node.text_type # TEXT THEN <<node>>
    ELSE Apply(LAMBDA ms : PatternEmits(node, kind, ms, 1, 0), finditer(kind, node.text, 1))

split_nodes_image(old_nodes) ==
    Apply(LAMBDA ns : Flatten([n \in 1..Len(ns) |-> PatternSplit(ns[n], IMAGE)]), old_nodes)

split_nodes_link(old_nodes) ==
    Apply(LAMBDA ns : Flatten([n \in 1..Len(ns) |-> PatternSplit(ns[n], LINK)]), old_nodes)

----------------------------------------------------------------------------
(* textnode.py: text_to_textnodes *)

text_to_textnodes(t) ==
    Then(split_nodes_delimiter(
            split_nodes_link(split_nodes_image(<<TextNode(t, TEXT, None)>>)),
            BoldDelimiter, BOLD),
         LAMBDA n3 :
    Then(split_nodes_delimiter(n3, ItalicDelimiter, ITALIC),
         LAMBDA n4 :
    split_nodes_delimiter(n4, CodeDelimiter, CODE)))

----------------------------------------------------------------------------
(* htmlnode.py: HTMLNode, LeafNode, ParentNode *)

\* LeafNode.__init__: tag, value and props are Optionals
LeafNode(tag, value, props) ==
    [kind |-> "LeafNode", tag |-> tag, value |-> value, children |-> None,
     props |-> props]

\* ParentNode.__init__: tag, children and props are Optionals
ParentNode(tag, children, props) ==
    [kind |-> "ParentNode", tag |-> tag, value |-> None, children |-> children,
     props |-> props]

VOID_HTML_TAGS ==
    { <<"a","r","e","a">>, <<"b","a","s","e">>, <<"b","r">>, <<"c","o","l">>,
      <<"e","m","b","e","d">>, <<"h","r">>, <<"i","m","g">>,
      <<"i","n","p","u","t">>, <<"l","i","n","k">>, <<"m","e","t","a">>,
      <<"s","o","u","r","c","e">>, <<"t","r","a","c","k">>, <<"w","b","r">> }

MissingValue == [exc |-> "ValueError", msg |-> "LeafNode must have a value", delimiter |-> <<>>]

MissingTag == [exc |-> "ValueError", msg |-> "ParentNode must have a tag", delimiter |-> <<>>]

MissingChildren == [exc |-> "ValueError", msg |-> "ParentNode must have children", delimiter |-> <<>>]

\* props_to_html without the space before the first pair
props_to_html_NoLeadingSpace(node) ==
    IF node.props = None \/ node.props[1] = <<>> THEN <<>>
    ELSE join(<<" ">>, [i \in 1..Len(node.props[1]) |->
            node.props[1][i][1] \o <<"=", "\"">> \o node.props[1][i][2] \o <<"\"">>])

\* HTMLNode.props_to_html; props is a dict, kept as the list of its items in
\* insertion order
props_to_html(node) ==
    IF node.props = None \/ node.props[1] = <<>> THEN <<>>
    ELSE <<" ">> \o join(<<" ">>, [i \in 1..Len(node.props[1]) |->
            node.props[1][i][1] \o <<"=", "\"">> \o node.props[1][i][2] \o <<"\"">>])

\* to_html that leaves out the children whose render fails
RECURSIVE to_html_SkipFailedChildren(_)
to_html_SkipFailedChildren(n) ==
    Apply(LAMBDA node :
        IF node.kind = "LeafNode"
        THEN IF node.value = None THEN Raise(MissingValue)
             ELSE IF node.tag = None THEN Return(node.value[1])
             ELSE IF node.tag[1] \in VOID_HTML_TAGS
                  THEN Return(<<"<">> \o node.tag[1] \o props_to_html(node) \o <<">">>)
             ELSE Return(<<"<">> \o node.tag[1] \o props_to_html(node) \o <<">">>
                         \o node.value[1] \o <<"<", "/">> \o node.tag[1] \o <<">">>)
        ELSE IF node.tag = None THEN Raise(MissingTag)
             ELSE IF node.children = None THEN Raise(MissingChildren)
             ELSE Apply(LAMBDA inner :
                       Return(<<"<">> \o node.tag[1] \o props_to_html(node) \o <<">">>
                              \o Flatten([i \in 1..Len(inner) |->
                                            IF inner[i].ok THEN inner[i].value[1] ELSE <<>>])
                              \o <<"<", "/">> \o node.tag[1] \o <<">">>),
                     [i \in 1..Len(node.children[1]) |->
                         to_html_SkipFailedChildren(node.children[1][i])]),
        n)

\* LeafNode.to_html and ParentNode.to_html
RECURSIVE to_html(_)
to_html(n) ==
    Apply(LAMBDA node :
        IF node.kind = "LeafNode"
        THEN IF node.value = None THEN Raise(MissingValue)
             ELSE IF node.tag = None THEN Return(node.value[1])
             ELSE IF node.tag[1] \in VOID_HTML_TAGS
                  THEN Return(<<"<">> \o node.tag[1] \o props_to_html(node) \o <<">">>)
             ELSE Return(<<"<">> \o node.tag[1] \o props_to_html(node) \o <<">">>
                         \o node.value[1] \o <<"<", "/">> \o node.tag[1] \o <<">">>)
        ELSE IF node.tag = None THEN Raise(MissingTag)
             ELSE IF node.children = None THEN Raise(MissingChildren)
             ELSE Then(Collect([i \in 1..Len(node.children[1]) |->
                                   to_html(node.children[1][i])]),
                       LAMBDA inner :
                       Return(<<"<">> \o node.tag[1] \o props_to_html(node) \o <<">">>
                              \o Flatten(inner)
                              \o <<"<", "/">> \o node.tag[1] \o <<">">>)),
        n)

----------------------------------------------------------------------------
(* textnode.py: text_node_to_html_node *)

UnknownTextType == [exc |-> "ValueError", msg |-> "Unknown text type", delimiter |-> <<>>]

\* text_node.url or ""
UrlOrEmpty(url) == IF url = None THEN <<>> ELSE url[1]

\* text_node_to_html_node that gives an image no value
text_node_to_html_node_ImageWithoutValue(text_node) ==
    IF text_node.text_type = TEXT THEN Return(LeafNode(None, Some(text_node.text), None))
    ELSE IF text_node.text_type = BOLD
         THEN Return(LeafNode(Some(<<"b">>), Some(text_node.text), None))
    ELSE IF text_node.text_type = ITALIC
         THEN Return(LeafNode(Some(<<"i">>), Some(text_node.text), None))
    ELSE IF text_node.text_type = CODE
         THEN Return(LeafNode(Some(<<"c","o","d","e">>), Some(text_node.text), None))
    ELSE IF text_node.text_type = LINK
         THEN Return(LeafNode(Some(<<"a">>), Some(text_node.text),
                       Some(<< << <<"h","r","e","f">>, UrlOrEmpty(text_node.url) >> >>)))
    ELSE IF text_node.text_type = IMAGE
         THEN Return(LeafNode(Some(<<"i","m","g">>), None,
                       Some(<< << <<"s","r","c">>, UrlOrEmpty(text_node.url) >>,
                               << <<"a","l","t">>, text_node.text >> >>)))
    ELSE Raise(UnknownTextType)

text_node_to_html_node(text_node) ==
    IF text_node.text_type = TEXT THEN Return(LeafNode(None, Some(text_node.text), None))
    ELSE IF text_node.text_type = BOLD
         THEN Return(LeafNode(Some(<<"b">>), Some(text_node.text), None))
    ELSE IF text_node.text_type = ITALIC
         THEN Return(LeafNode(Some(<<"i">>), Some(text_node.text), None))
    ELSE IF text_node.text_type = CODE
         THEN Return(LeafNode(Some(<<"c","o","d","e">>), Some(text_node.text), None))
    ELSE IF text_node.text_type = LINK
         THEN Return(LeafNode(Some(<<"a">>), Some(text_node.text),
                       Some(<< << <<"h","r","e","f">>, UrlOrEmpty(text_node.url) >> >>)))
    ELSE IF text_node.text_type = IMAGE
         THEN Return(LeafNode(Some(<<"i","m","g">>), Some(<<>>),
                       Some(<< << <<"s","r","c">>, UrlOrEmpty(text_node.url) >>,
                               << <<"a","l","t">>, text_node.text >> >>)))
    ELSE Raise(UnknownTextType)

----------------------------------------------------------------------------
(* textnode.py: extract_title *)

\* ValueError("No h1 header found in markdown")
NoHeader ==
    [exc |-> "ValueError", msg |-> "No h1 header found in markdown", delimiter |-> <<>>]

\* extract_title that returns the title of the last line that starts with "# "
extract_title_LastHeading(md) ==
    Apply(LAMBDA lines :
            Apply(LAMBDA hits :
                    IF hits = {} THEN Raise(NoHeader)
                    ELSE Return(strip(Drop(lines[CHOOSE i \in hits : \A k \in hits : k <= i], 2))),
                  {i \in 1..Len(lines) : StartsWith(lines[i], <<"#", " ">>)}),
          split(md, <<"\n">>))

\* for line in markdown.split("\n"): the first line that starts with "# "
\* returns line[2:].strip(); none raises
extract_title(md) ==
    Apply(LAMBDA lines :
            Apply(LAMBDA hits :
                    IF hits = {} THEN Raise(NoHeader)
                    ELSE Return(strip(Drop(lines[Min(hits)], 2))),
                  {i \in 1..Len(lines) : StartsWith(lines[i], <<"#", " ">>)}),
          split(md, <<"\n">>))

----------------------------------------------------------------------------
(* textnode.py: markdown_to_blocks, BlockType, block_to_block_type *)

\* markdown_to_blocks without the filter that drops the empty pieces
markdown_to_blocks_KeepEmpty(md) ==
    Apply(LAMBDA pieces : [i \in 1..Len(pieces) |-> strip(pieces[i])],
          split(md, <<"\n", "\n">>))

markdown_to_blocks(md) ==
    Apply(LAMBDA pieces :
            SelectSeq([i \in 1..Len(pieces) |-> strip(pieces[i])], LAMBDA b : b # <<>>),
          split(md, <<"\n", "\n">>))

HEADING == "heading"
BLOCK_CODE == "code"
QUOTE == "quote"
UNORDERED_LIST == "unordered_list"
ORDERED_LIST == "ordered_list"
PARAGRAPH == "paragraph"

BlockType == {HEADING, BLOCK_CODE, QUOTE, UNORDERED_LIST, ORDERED_LIST, PARAGRAPH}

\* str(n) for n >= 0: the decimal digits
RECURSIVE str(_)
str(n) ==
    IF n < 10 THEN <<(<<"0", "1", "2", "3", "4", "5", "6", "7", "8", "9">>)[n + 1]>>
    ELSE str(n \div 10) \o str(n % 10)

\* HeadingMatch with up to seven "#"
HeadingMatch_UpTo7(b) ==
    Apply(LAMBDA hashes :
            IF hashes >= 1 /\ hashes <= 7 /\ Len(b) > hashes /\ b[hashes + 1] = " "
            THEN [ok |-> TRUE, level |-> hashes, end |-> hashes + 1]
            ELSE [ok |-> FALSE, level |-> 0, end |-> 0],
          Len(b) - Len(lstrip(b, {"#"})))

\* re.match(r"^(#{1,6}) ", block): the match (the length of group 1 and m.end())
\* or ok = FALSE
HeadingMatch(b) ==
    Apply(LAMBDA hashes :
            IF hashes >= 1 /\ hashes <= 6 /\ Len(b) > hashes /\ b[hashes + 1] = " "
            THEN [ok |-> TRUE, level |-> hashes, end |-> hashes + 1]
            ELSE [ok |-> FALSE, level |-> 0, end |-> 0],
          Len(b) - Len(lstrip(b, {"#"})))

Fence == <<BACKTICK, BACKTICK, BACKTICK>>

\* Numbered that compares the last digit of the line number only
Numbered_LastDigit(lines) ==
    \A i \in 1..Len(lines) : StartsWith(lines[i], str(i % 10) \o <<".", " ">>)

\* lines[i].startswith(f"{i + 1}. ") for every index of lines (i + 1 is the
\* 1-based index)
Numbered(lines) ==
    \A i \in 1..Len(lines) : StartsWith(lines[i], str(i) \o <<".", " ">>)

\* block_to_block_type taking a block for a quote when any of its lines starts
\* with ">"
block_to_block_type_AnyQuoteLine(b) ==
    IF b = <<>> THEN PARAGRAPH
    ELSE Apply(LAMBDA lines :
            IF HeadingMatch(b).ok THEN HEADING
            ELSE IF StartsWith(b, Fence \o <<"\n">>) /\ EndsWith(b, Fence) THEN BLOCK_CODE
            ELSE IF \E i \in 1..Len(lines) : StartsWith(lines[i], <<">">>) THEN QUOTE
            ELSE IF \A i \in 1..Len(lines) : StartsWith(lines[i], <<"-", " ">>)
                 THEN UNORDERED_LIST
            ELSE IF lines # <<>> /\ Numbered(lines) THEN ORDERED_LIST
            ELSE PARAGRAPH,
          split(b, <<"\n">>))

block_to_block_type(b) ==
    IF b = <<>> THEN PARAGRAPH
    ELSE Apply(LAMBDA lines :
            IF HeadingMatch(b).ok THEN HEADING
            ELSE IF StartsWith(b, Fence \o <<"\n">>) /\ EndsWith(b, Fence) THEN BLOCK_CODE
            ELSE IF \A i \in 1..Len(lines) : StartsWith(lines[i], <<">">>) THEN QUOTE
            ELSE IF \A i \in 1..Len(lines) : StartsWith(lines[i], <<"-", " ">>)
                 THEN UNORDERED_LIST
            ELSE IF lines # <<>> /\ Numbered(lines) THEN ORDERED_LIST
            ELSE PARAGRAPH,
          split(b, <<"\n">>))

----------------------------------------------------------------------------
(* textnode.py: text_to_children, _block_to_html_node, markdown_to_html_node *)

text_to_children(t) ==
    Then(text_to_textnodes(t),
         LAMBDA text_nodes :
         Collect([i \in 1..Len(text_nodes) |-> text_node_to_html_node(text_nodes[i])]))

\* ParentNode(tag, <children>) around a call that computes the children
Wrapped(tag, r) ==
    Then(r, LAMBDA children : Return(ParentNode(Some(tag), Some(children), None)))

NoMatch ==
    [exc |-> "AttributeError", msg |-> "'NoneType' object has no attribute 'group'",
     delimiter |-> <<>>]

NoSecondPart == [exc |-> "IndexError", msg |-> "list index out of range", delimiter |-> <<>>]

\* CodeContent that keeps the line break after the opening fence
CodeContent_KeepNewline(b) == SubSeq(b, 4, Len(b) - 3)

\* block[4:-3]
CodeContent(b) == SubSeq(b, 5, Len(b) - 3)

\* " ".join(line.lstrip(">").strip() for line in lines)
QuoteText(lines) ==
    join(<<" ">>, [i \in 1..Len(lines) |-> strip(lstrip(lines[i], {">"}))])

\* ParentNode("li", text_to_children(line[2:]))
UnorderedItem(line) == Wrapped(<<"l","i">>, text_to_children(Drop(line, 2)))

\* OrderedItem that takes what follows the last ". " of the line
OrderedItem_AfterLastSeparator(line) ==
    Apply(LAMBDA parts :
            IF Len(parts) < 2 THEN Raise(NoSecondPart)
            ELSE Wrapped(<<"l","i">>, text_to_children(parts[Len(parts)])),
          split(line, <<".", " ">>))

\* ParentNode("li", text_to_children(line.split(". ", 1)[1]))
OrderedItem(line) ==
    Apply(LAMBDA parts :
            IF Len(parts) < 2 THEN Raise(NoSecondPart)
            ELSE Wrapped(<<"l","i">>, text_to_children(parts[2])),
          split1(line, <<".", " ">>))

\* The heading branch (lines 213-216)
HeadingNode(b) ==
    Apply(LAMBDA m :
            IF ~m.ok THEN Raise(NoMatch)
            ELSE Wrapped(<<"h">> \o str(m.level), text_to_children(Drop(b, m.end))),
          HeadingMatch(b))

\* _block_to_html_node after line 205, bt being the local block_type
BuildNode(b, bt) ==
    Apply(LAMBDA lines :
        IF bt = PARAGRAPH
        THEN Wrapped(<<"p">>, text_to_children(replace(b, <<"\n">>, <<" ">>)))
        ELSE IF bt = HEADING THEN HeadingNode(b)
        ELSE IF bt = BLOCK_CODE
        THEN Return(ParentNode(Some(<<"p","r","e">>),
                Some(<<LeafNode(Some(<<"c","o","d","e">>), Some(CodeContent(b)), None)>>),
                None))
        ELSE IF bt = QUOTE
        THEN Wrapped(<<"b","l","o","c","k","q","u","o","t","e">>,
                     text_to_children(QuoteText(lines)))
        ELSE IF bt = UNORDERED_LIST
        THEN Wrapped(<<"u","l">>, Collect([i \in 1..Len(lines) |-> UnorderedItem(lines[i])]))
        ELSE IF bt = ORDERED_LIST
        THEN Wrapped(<<"o","l">>, Collect([i \in 1..Len(lines) |-> OrderedItem(lines[i])]))
        ELSE Wrapped(<<"p">>, text_to_children(replace(b, <<"\n">>, <<" ">>))),
        split(b, <<"\n">>))

_block_to_html_node(b) == BuildNode(b, block_to_block_type(b))

markdown_to_html_node(md) ==
    Apply(LAMBDA bs :
            Wrapped(<<"d","i","v">>,
                    Collect([i \in 1..Len(bs) |-> _block_to_html_node(bs[i])])),
          markdown_to_blocks(md))

----------------------------------------------------------------------------
(* The inputs *)

MaxTextLen == 4
MaxTokens == 3
MaxBlockLines == 3
MaxHashes == 7
MaxItems == 11
MaxDocBlocks == 3
MaxDocLen == 6

\* All strings of at most n characters of chars
Strings(chars, n) == UNION {[1..k -> chars] : k \in 0..n}

InlineChars == {"a", "*", "_", BACKTICK, "!", "[", "]", "(", ")"}

InlineTokens ==
    { <<"*", "*">>, <<"_">>, <<BACKTICK>>, <<"a">>, <<"!">>, <<"*">>,
      <<"[", "a", "]", "(", "b", ")">>,
      <<"!", "[", "a", "]", "(", "b", ")">>,
      <<"[", "_", "]", "(", BACKTICK, ")">>,
      <<"[", "a", "]">> }

\* Closed spans: bold, italic, code, plain text, and bold around a "_"
StyledTokens ==
    { <<"*", "*", "a", "*", "*">>, <<"_", "b", "_">>, <<BACKTICK, "c", BACKTICK>>,
      <<"a">>, <<"*", "*", "_", "a", "*", "*">> }

\* The arguments of text_to_textnodes: every short string of inline syntax
\* characters, and every short concatenation of inline constructs
Texts ==
    Strings(InlineChars, MaxTextLen)
    \cup {<<BACKTICK>> \o Flatten(ts) \o <<BACKTICK>> :
            ts \in Strings({<<"*", "*">>, <<"_">>, <<"a">>}, MaxTokens)}
    \cup {Flatten(ts) : ts \in Strings(StyledTokens, MaxTokens)}
    \cup {Flatten(ts) : ts \in Strings(InlineTokens, MaxTokens)}

BlockLines ==
    { <<>>, <<"a">>, <<">", "a">>, <<">", ">", " ", "a", " ">>, <<"-", " ", "a">>,
      <<"-", "a">>, <<"1", ".", " ", "a">>, <<"2", ".", " ", "a">>,
      <<"1", ".", "a">>, Fence, <<"*", "*", "a">>, <<"#", " ", "a">>,
      <<"!", "[", "a", "]", "(", "b", ")", "_">>,
      <<">", VT, "a", US>> }

HeadingTails ==
    { <<>>, <<" ">>, <<"a">>, <<" ", "a">>, <<" ", " ", "a">>, <<"\n", "a">>,
      <<" ", "a", "\n", ">", "b">>, <<" ", "_", "a">> }

\* One line of an ordered list: number, separator, text
OrderedLine(num, sep) == str(num) \o sep \o <<"a">>

\* An ordered list of n lines numbered 1..n, but for line j
OrderedBlock(n, j, num, sep) ==
    join(<<"\n">>, [i \in 1..n |->
        IF i = j THEN OrderedLine(num, sep) ELSE OrderedLine(i, <<".", " ">>)])

\* The texts of list items
ItemTexts ==
    { <<"a">>, <<"*", "*", "a">>, <<"a", "*", "*">>, <<"_", "a", "_">>,
      <<"x", ".", " ", "y">> }

\* The lists whose items are ts: unordered, and numbered from 1
ListBlocks ==
    UNION {{join(<<"\n">>, [i \in 1..Len(ts) |-> <<"-", " ">> \o ts[i]]),
            join(<<"\n">>, [i \in 1..Len(ts) |-> str(i) \o <<".", " ">> \o ts[i]])} :
           ts \in Strings(ItemTexts, MaxBlockLines) \ {<<>>}}

\* The arguments of _block_to_html_node and block_to_block_type
Blocks ==
    {join(<<"\n">>, ls) : ls \in Strings(BlockLines, MaxBlockLines)}
    \cup ListBlocks
    \cup {[i \in 1..k |-> "#"] \o tail : k \in 0..MaxHashes, tail \in HeadingTails}
    \cup {OrderedBlock(n, j, num, sep) :
            n \in 1..MaxItems, j \in 1..MaxItems, num \in 0..(MaxItems + 1),
            sep \in {<<".", " ">>, <<".">>}}

DocBlocks ==
    { <<"a">>, <<"#", "#", " ", "a">>, <<"-", " ", "a", "\n", "-", " ", "b">>,
      <<">", "a">>, <<"1", ".", " ", "a", "\n", "2", ".", " ", "b">>,
      Fence \o <<"\n", "_", "a", "\n">> \o Fence,
      <<"*", "*", "a", "*", "*">>, <<"_", "a">>, <<"a", " ", BACKTICK, "b">>,
      <<"[", "a", "]", "(", "b", ")">> }

\* Documents of one block at the edge of a block type
EdgeDocs ==
    { <<VT, "a", "\n", "\n", "b">>,
      <<"a", "\n", "\n", VT, "\n", "\n", "b">>,
      <<"a", FS, "\n", "\n", GS, RS, "b", US>>,
      <<">", VT, "a">>,
      <<"U+00A0", "a", "U+2028">>,
      Fence \o <<"\n">> \o Fence,
      Fence \o <<"\n", "a">>,
      Fence,
      <<"#", "#", "#", "#", "#", "#", " ", "a">>,
      <<"#", "#", "#", "#", "#", "#", "#", " ", "a">>,
      <<"#", " ", "a", "\n", "b">>,
      <<"#", "a">>,
      <<"1", ".", " ", "a", "\n", "2", ".">>,
      <<"1", ".", " ", "a", "\n", "3", ".", " ", "b">>,
      <<"1", ".", " ", "a", ".", " ", "b">>,
      <<"1", ".", "a">>,
      <<">", "a", "\n", ">">>,
      <<"-", " ", "a", "\n", "-">>,
      <<"!", "[", "a", "]", "(", "b", ")">>,
      <<"*", "*", "*", "*">>,
      <<"-", " ", "*", "*", "a">> }

\* The arguments of markdown_to_html_node: documents of a few blocks, and
\* every short string of text, spaces and line breaks
Docs ==
    {join(<<"\n", "\n">>, bs) : bs \in Strings(DocBlocks, MaxDocBlocks)}
    \cup Strings({"a", " ", "\n"}, MaxDocLen)
    \cup EdgeDocs

----------------------------------------------------------------------------
(* text_to_textnodes, statement by statement (textnode.py lines 137-143) *)

TokInit ==
    /\ text \in Texts
    /\ nodes = <<TextNode(text, TEXT, None)>>
    /\ pc = "split_nodes_image"
    /\ result = None /\ error = None /\ html = None
    /\ block = <<>> /\ block_type = PARAGRAPH
    /\ markdown = <<>> /\ blocks = <<>> /\ block_nodes = <<>>
    /\ call = None

\* nodes = split_nodes_image(nodes)
TokImage ==
    /\ pc = "split_nodes_image"
    /\ nodes' = split_nodes_image(nodes)
    /\ pc' = "split_nodes_link"
    /\ UNCHANGED <<text, block, block_type, markdown, blocks, block_nodes, result, html, error>>
    /\ UNCHANGED call

\* nodes = split_nodes_link(nodes)
TokLink ==
    /\ pc = "split_nodes_link"
    /\ nodes' = split_nodes_link(nodes)
    /\ pc' = "split_bold"
    /\ UNCHANGED <<text, block, block_type, markdown, blocks, block_nodes, result, html, error>>
    /\ UNCHANGED call

\* TokBold with the backtick pass run before the "**" pass
TokBold_CodeFirst ==
    /\ pc = "split_bold"
    /\ \E c \in {split_nodes_delimiter(nodes, CodeDelimiter, CODE)} :
       \E r \in {IF c.ok THEN split_nodes_delimiter(c.value[1], BoldDelimiter, BOLD) ELSE c} :
          IF r.ok
          THEN nodes' = r.value[1] /\ pc' = "split_italic" /\ UNCHANGED error
          ELSE error' = r.error /\ pc' = "raised" /\ UNCHANGED nodes
    /\ UNCHANGED <<text, block, block_type, markdown, blocks, block_nodes, result, html>>
    /\ UNCHANGED call

\* nodes = split_nodes_delimiter(nodes, "**", TextType.BOLD)
TokBold ==
    /\ pc = "split_bold"
    /\ \E r \in {split_nodes_delimiter(nodes, BoldDelimiter, BOLD)} :
          IF r.ok
          THEN nodes' = r.value[1] /\ pc' = "split_italic" /\ UNCHANGED error
          ELSE error' = r.error /\ pc' = "raised" /\ UNCHANGED nodes
    /\ UNCHANGED <<text, block, block_type, markdown, blocks, block_nodes, result, html>>
    /\ UNCHANGED call

\* nodes = split_nodes_delimiter(nodes, "_", TextType.ITALIC)
TokItalic ==
    /\ pc = "split_italic"
    /\ \E r \in {split_nodes_delimiter(nodes, ItalicDelimiter, ITALIC)} :
          IF r.ok
          THEN nodes' = r.value[1] /\ pc' = "split_code" /\ UNCHANGED error
          ELSE error' = r.error /\ pc' = "raised" /\ UNCHANGED nodes
    /\ UNCHANGED <<text, block, block_type, markdown, blocks, block_nodes, result, html>>
    /\ UNCHANGED call

\* nodes = split_nodes_delimiter(nodes, "`", TextType.CODE)
TokCode ==
    /\ pc = "split_code"
    /\ \E r \in {split_nodes_delimiter(nodes, CodeDelimiter, CODE)} :
          IF r.ok
          THEN nodes' = r.value[1] /\ pc' = "return" /\ UNCHANGED error
          ELSE error' = r.error /\ pc' = "raised" /\ UNCHANGED nodes
    /\ UNCHANGED <<text, block, block_type, markdown, blocks, block_nodes, result, html>>
    /\ UNCHANGED call

\* return nodes
TokReturn ==
    /\ pc = "return"
    /\ result' = Some(nodes)
    /\ pc' = "done"
    /\ UNCHANGED <<text, nodes, block, block_type, markdown, blocks, block_nodes, html, error>>
    /\ UNCHANGED call

TokNext == TokImage \/ TokLink \/ TokBold \/ TokItalic \/ TokCode \/ TokReturn

SpecTok == TokInit /\ [][TokNext]_vars

----------------------------------------------------------------------------
(* _block_to_html_node: line 205, then lines 206-238 *)

BlockInit ==
    /\ block \in Blocks
    /\ block_type = PARAGRAPH
    /\ pc = "classify"
    /\ result = None /\ error = None /\ html = None
    /\ text = <<>> /\ nodes = <<>>
    /\ markdown = <<>> /\ blocks = <<>> /\ block_nodes = <<>>
    /\ call = None

\* block_type = block_to_block_type(block)
BlockClassify ==
    /\ pc = "classify"
    /\ block_type' = block_to_block_type(block)
    /\ pc' = "build"
    /\ UNCHANGED <<text, nodes, block, markdown, blocks, block_nodes, result, html, error>>
    /\ UNCHANGED call

\* the branch of block_type: return the node, or raise
BlockBuild ==
    /\ pc = "build"
    /\ \E r \in {BuildNode(block, block_type)} :
          IF r.ok
          THEN result' = r.value /\ pc' = "done" /\ UNCHANGED error
          ELSE error' = r.error /\ pc' = "raised" /\ UNCHANGED result
    /\ UNCHANGED <<text, nodes, block, block_type, markdown, blocks, block_nodes, html>>
    /\ UNCHANGED call

BlockNext == BlockClassify \/ BlockBuild

SpecBlock == BlockInit /\ [][BlockNext]_vars

----------------------------------------------------------------------------
(* main.py line 17: markdown_to_html_node(markdown).to_html() *)

Init ==
    /\ markdown \in Docs
    /\ blocks = <<>> /\ block_nodes = <<>>
    /\ pc = "markdown_to_blocks"
    /\ result = None /\ error = None /\ html = None
    /\ text = <<>> /\ nodes = <<>>
    /\ block = <<>> /\ block_type = PARAGRAPH
    /\ call = None

\* blocks = markdown_to_blocks(markdown)
Segment ==
    /\ pc = "markdown_to_blocks"
    /\ blocks' = markdown_to_blocks(markdown)
    /\ pc' = "block_nodes"
    /\ UNCHANGED <<text, nodes, block, block_type, markdown, block_nodes, result, html, error>>
    /\ UNCHANGED call

\* BuildBlock with the new node put in front of the list instead of at its end
BuildBlock_Prepend ==
    /\ pc = "block_nodes"
    /\ Len(block_nodes) < Len(blocks)
    /\ \E r \in {_block_to_html_node(blocks[Len(block_nodes) + 1])} :
          IF r.ok
          THEN block_nodes' = <<r.value[1]>> \o block_nodes /\ UNCHANGED <<pc, error>>
          ELSE error' = r.error /\ pc' = "raised" /\ UNCHANGED block_nodes
    /\ UNCHANGED <<text, nodes, block, block_type, markdown, blocks, result, html>>
    /\ UNCHANGED call

\* BuildBlock with a block that raises left out of the document
BuildBlock_SkipMalformed ==
    /\ pc = "block_nodes"
    /\ Len(block_nodes) < Len(blocks)
    /\ \E r \in {_block_to_html_node(blocks[Len(block_nodes) + 1])} :
          IF r.ok
          THEN block_nodes' = Append(block_nodes, r.value[1]) /\ UNCHANGED blocks
          ELSE /\ blocks' = SubSeq(blocks, 1, Len(block_nodes))
                            \o SubSeq(blocks, Len(block_nodes) + 2, Len(blocks))
               /\ UNCHANGED block_nodes
    /\ UNCHANGED <<pc, error, text, nodes, block, block_type, markdown, result, html>>
    /\ UNCHANGED call

\* one element of [_block_to_html_node(block) for block in blocks]
BuildBlock ==
    /\ pc = "block_nodes"
    /\ Len(block_nodes) < Len(blocks)
    /\ \E r \in {_block_to_html_node(blocks[Len(block_nodes) + 1])} :
          IF r.ok
          THEN block_nodes' = Append(block_nodes, r.value[1]) /\ UNCHANGED <<pc, error>>
          ELSE error' = r.error /\ pc' = "raised" /\ UNCHANGED block_nodes
    /\ UNCHANGED <<text, nodes, block, block_type, markdown, blocks, result, html>>
    /\ UNCHANGED call

\* return ParentNode("div", block_nodes)
ReturnDiv ==
    /\ pc = "block_nodes"
    /\ Len(block_nodes) = Len(blocks)
    /\ result' = Some(ParentNode(Some(<<"d", "i", "v">>), Some(block_nodes), None))
    /\ pc' = "to_html"
    /\ UNCHANGED <<text, nodes, block, block_type, markdown, blocks, block_nodes, html, error>>
    /\ UNCHANGED call

\* html_content = <the node returned>.to_html()
Render ==
    /\ pc = "to_html"
    /\ \E r \in {to_html(result[1])} :
          IF r.ok
          THEN html' = r.value /\ pc' = "done" /\ UNCHANGED error
          ELSE error' = r.error /\ pc' = "raised" /\ UNCHANGED html
    /\ UNCHANGED <<text, nodes, block, block_type, markdown, blocks, block_nodes, result>>
    /\ UNCHANGED call

Next == Segment \/ BuildBlock \/ ReturnDiv \/ Render

Spec == Init /\ [][Next]_vars

----------------------------------------------------------------------------
(* The functions of textnode.py called on their own, as the tests call them *)

MaxTitleLines == 3
MaxSpans == 3

TitleLines ==
    { <<"#", " ", "a">>, <<"#", " ", " ", "a", " ", "b", " ">>, <<"#", "#", " ", "a">>,
      <<"#", "a">>, <<"a">>, <<>>, <<" ", "#", " ", "a">>, <<"#", " ">>,
      <<"#", " ", "b">>, <<"#", "\t", "a">>, <<"#", " ", VT, "a", FS>> }

\* The arguments of extract_title
TitleDocs == {join(<<"\n">>, ls) : ls \in Strings(TitleLines, MaxTitleLines)}

\* Spans of every type; the spans that are not Plain hold delimiters and
\* patterns
SpanPool ==
    { TextNode(<<>>, TEXT, None),
      TextNode(<<"a", "*", "*", "b", "*", "*">>, TEXT, None),
      TextNode(<<"_", "a">>, TEXT, None),
      TextNode(<<"!", "[", "a", "]", "(", "b", ")", "[", "c", "]", "(", "d", ")">>, TEXT, None),
      TextNode(<<BACKTICK, "a", BACKTICK, "_", "b", "_">>, TEXT, None),
      TextNode(<<"_", "a", "_", BACKTICK>>, BOLD, None),
      TextNode(<<"*", "*">>, ITALIC, None),
      TextNode(<<"!", "[", "a", "]", "(", "b", ")">>, CODE, None),
      TextNode(<<"*", "*", "a">>, LINK, Some(<<"_", "b">>)),
      TextNode(<<BACKTICK, "a">>, IMAGE, Some(<<"[", "c", "]", "(", "d", ")">>)) }

\* The delimiter and text_type arguments of split_nodes_delimiter: those
\* text_to_textnodes passes, and the empty delimiter
DelimiterArgs ==
    { <<BoldDelimiter, BOLD>>, <<ItalicDelimiter, ITALIC>>, <<CodeDelimiter, CODE>>,
      <<<<>>, BOLD>> }

\* c is a call of one of the functions; the old_nodes of a pass are one Plain
\* span, or a few spans of the pool
Calls(c) ==
    \/ \E md \in TitleDocs : c = [function |-> "extract_title", markdown |-> md]
    \/ \E t \in Texts : c = [function |-> "text_to_textnodes", text |-> t]
    \/ \E f \in {"split_nodes_image", "split_nodes_link"} :
          \E t \in Texts :
              c = [function |-> f, old_nodes |-> <<TextNode(t, TEXT, None)>>]
    \/ \E f \in {"split_nodes_image", "split_nodes_link"} :
          \E ns \in Strings(SpanPool, MaxSpans) : c = [function |-> f, old_nodes |-> ns]
    \/ \E a \in DelimiterArgs : \E t \in Texts :
          c = [function |-> "split_nodes_delimiter",
               old_nodes |-> <<TextNode(t, TEXT, None)>>,
               delimiter |-> a[1], text_type |-> a[2]]
    \/ \E a \in DelimiterArgs : \E ns \in Strings(SpanPool, MaxSpans) :
          c = [function |-> "split_nodes_delimiter", old_nodes |-> ns,
               delimiter |-> a[1], text_type |-> a[2]]

CallInit ==
    /\ Calls(call)
    /\ pc = "call"
    /\ result = None /\ error = None /\ html = None
    /\ text = <<>> /\ nodes = <<>>
    /\ block = <<>> /\ block_type = PARAGRAPH
    /\ markdown = <<>> /\ blocks = <<>> /\ block_nodes = <<>>

\* extract_title(markdown)
CallExtractTitle ==
    /\ pc = "call" /\ call.function = "extract_title"
    /\ \E r \in {extract_title(call.markdown)} :
          IF r.ok
          THEN result' = r.value /\ pc' = "done" /\ UNCHANGED error
          ELSE error' = r.error /\ pc' = "raised" /\ UNCHANGED result
    /\ UNCHANGED <<text, nodes, block, block_type, markdown, blocks, block_nodes, html, call>>

\* text_to_textnodes(text)
CallTextToTextnodes ==
    /\ pc = "call" /\ call.function = "text_to_textnodes"
    /\ \E r \in {text_to_textnodes(call.text)} :
          IF r.ok
          THEN result' = r.value /\ pc' = "done" /\ UNCHANGED error
          ELSE error' = r.error /\ pc' = "raised" /\ UNCHANGED result
    /\ UNCHANGED <<text, nodes, block, block_type, markdown, blocks, block_nodes, html, call>>

\* split_nodes_image(old_nodes)
CallSplitNodesImage ==
    /\ pc = "call" /\ call.function = "split_nodes_image"
    /\ result' = Some(split_nodes_image(call.old_nodes))
    /\ pc' = "done"
    /\ UNCHANGED <<text, nodes, block, block_type, markdown, blocks, block_nodes, html,
                   error, call>>

\* split_nodes_link(old_nodes)
CallSplitNodesLink ==
    /\ pc = "call" /\ call.function = "split_nodes_link"
    /\ result' = Some(split_nodes_link(call.old_nodes))
    /\ pc' = "done"
    /\ UNCHANGED <<text, nodes, block, block_type, markdown, blocks, block_nodes, html,
                   error, call>>

\* split_nodes_delimiter(old_nodes, delimiter, text_type)
CallSplitNodesDelimiter ==
    /\ pc = "call" /\ call.function = "split_nodes_delimiter"
    /\ \E r \in {split_nodes_delimiter(call.old_nodes, call.delimiter, call.text_type)} :
          IF r.ok
          THEN result' = r.value /\ pc' = "done" /\ UNCHANGED error
          ELSE error' = r.error /\ pc' = "raised" /\ UNCHANGED result
    /\ UNCHANGED <<text, nodes, block, block_type, markdown, blocks, block_nodes, html, call>>

CallNext ==
    \/ CallExtractTitle
    \/ CallTextToTextnodes
    \/ CallSplitNodesImage
    \/ CallSplitNodesLink
    \/ CallSplitNodesDelimiter

SpecCall == CallInit /\ [][CallNext]_vars

----------------------------------------------------------------------------
(* to_html called on a tree built by hand, as the tests of htmlnode.py build
   them: well-formed or not, three levels deep *)

MaxChildren == 2

ClassProps == Some(<< << <<"c","l","a","s","s">>, <<"c">> >> >>)

LinkProps ==
    Some(<< << <<"h","r","e","f">>, <<"u">> >>, << <<"t","a","r","g","e","t">>, <<"_">> >> >>)

TextLeaf == LeafNode(None, Some(<<"x">>), None)

NoValueLeaf == LeafNode(Some(<<"b">>), None, None)

Leaves ==
    { TextLeaf, NoValueLeaf,
      LeafNode(Some(<<"b">>), Some(<<>>), None),
      LeafNode(None, None, None),
      LeafNode(Some(<<"a">>), Some(<<"y">>), LinkProps),
      LeafNode(Some(<<"i">>), Some(<<"x">>), Some(<<>>)),
      LeafNode(Some(<<"i","m","g">>), Some(<<"v">>), ClassProps),
      LeafNode(Some(<<"b","r">>), None, None) }

\* The tag and props of the Parents
ParentHeads == { <<None, None>>, <<Some(<<"p">>), ClassProps>>, <<Some(<<"b","r">>), None>> }

\* Parents of leaves
Level1 ==
    {ParentNode(h[1], ch, h[2]) :
        h \in ParentHeads,
        ch \in {None} \cup {Some(c) : c \in Strings(Leaves, MaxChildren)}}

\* The leaves around the Parent among the children of a tree of three levels
Siblings == Strings({TextLeaf, NoValueLeaf}, MaxChildren - 1)

\* r holds a Leaf, a Parent of leaves, or a Parent of one Parent of leaves
\* with leaves before and after it
Trees(r) ==
    \/ \E t \in Leaves \cup Level1 : r = Some(t)
    \/ \E h \in ParentHeads : \E inner \in Level1 :
          \E before \in Siblings : \E after \in Siblings :
              /\ Len(before) + Len(after) < MaxChildren
              /\ r = Some(ParentNode(h[1], Some(before \o <<inner>> \o after), h[2]))

HtmlInit ==
    /\ Trees(result)
    /\ pc = "to_html"
    /\ error = None /\ html = None
    /\ text = <<>> /\ nodes = <<>>
    /\ block = <<>> /\ block_type = PARAGRAPH
    /\ markdown = <<>> /\ blocks = <<>> /\ block_nodes = <<>>
    /\ call = None

HtmlNext == Render

SpecHtml == HtmlInit /\ [][HtmlNext]_vars

----------------------------------------------------------------------------
(* Properties of markdown_to_html_node (specification Spec) *)

DivTag == <<"d", "i", "v">>

EmptyDivHtml == <<"<", "d", "i", "v", ">", "<", "/", "d", "i", "v", ">">>

\* C1: whenever markdown_to_html_node has returned, the value is a Parent node
\* with tag "div" whose children are, in order, the nodes built from the blocks
\* of markdown_to_blocks(markdown), child i from block i; with no block the
\* child list is empty and the node renders as <div></div>.
C1_DivOfBlocksInOrder ==
    result # None =>
        \E bs \in {markdown_to_blocks(markdown)} :
            /\ result[1].kind = "ParentNode"
            /\ result[1].tag = Some(DivTag)
            /\ result[1].children # None
            /\ Len(result[1].children[1]) = Len(bs)
            /\ \A i \in 1..Len(bs) :
                  _block_to_html_node(bs[i]) = Return(result[1].children[1][i])
            /\ (bs = <<>> /\ pc = "done" => html = Some(EmptyDivHtml))

\* C1 witness: a returned div with two different children
C1_Witness ==
    /\ result # None
    /\ Len(result[1].children[1]) >= 2
    /\ result[1].children[1][1] # result[1].children[1][2]

\* C5: when _block_to_html_node raises on some block of the document, whatever
\* its position, markdown_to_html_node returns no tree and nothing is rendered:
\* the call is still building the blocks before the first such block, or has
\* raised that block's exception.
C5_MalformedBlockFailsDocument ==
    \E bs \in {markdown_to_blocks(markdown)} :
        \E bad \in {{i \in 1..Len(bs) : ~_block_to_html_node(bs[i]).ok}} :
            bad # {} =>
                /\ result = None
                /\ html = None
                /\ pc \in {"markdown_to_blocks", "block_nodes", "raised"}
                /\ pc = "block_nodes" => Len(block_nodes) < Min(bad)
                /\ pc = "raised" =>
                      /\ error = _block_to_html_node(bs[Min(bad)]).error
                      /\ error[1].msg = "Invalid markdown: unclosed delimiter"

\* C5 witness: the call has raised on a block that has a well-formed block
\* before it and another after it
C5_Witness ==
    /\ pc = "raised"
    /\ Len(block_nodes) >= 1
    /\ Len(blocks) >= Len(block_nodes) + 2
    /\ _block_to_html_node(blocks[Len(blocks)]).ok

\* No character of s is whitespace
NoWhitespaceAt(s, i) == s[i] \notin Whitespace

\* md from index from on is: whitespace, then blocks bs[i..], each two
\* separated by whitespace that holds a blank line, then whitespace
RECURSIVE LaidOut(_, _, _, _)
LaidOut(md, bs, i, from) ==
    \E start \in {Min({k \in from..Len(md) : NoWhitespaceAt(md, k)} \cup {Len(md) + 1})} :
        IF i > Len(bs) THEN start = Len(md) + 1
        ELSE /\ SubSeq(md, start, start + Len(bs[i]) - 1) = bs[i]
             /\ start + Len(bs[i]) - 1 <= Len(md)
             /\ i > 1 => FindFrom(md, <<"\n", "\n">>, from) \in from..(start - 2)
             /\ LaidOut(md, bs, i + 1, start + Len(bs[i]))

\* C6: the blocks markdown_to_blocks returns are non-empty, have no leading or
\* trailing whitespace and hold no "\n\n"; they are the trimmed pieces of the
\* document in document order (the document is the blocks laid out in order,
\* any two separated by whitespace holding "\n\n", whitespace around them); an
\* empty or whitespace-only document has no block.
C6_BlocksTrimmedNonEmptyInOrder ==
    pc # "markdown_to_blocks" =>
        /\ \A i \in 1..Len(blocks) :
              /\ blocks[i] # <<>>
              /\ blocks[i][1] \notin Whitespace
              /\ blocks[i][Len(blocks[i])] \notin Whitespace
              /\ \A k \in 1..(Len(blocks[i]) - 1) :
                    ~(blocks[i][k] = "\n" /\ blocks[i][k + 1] = "\n")
        /\ LaidOut(markdown, blocks, 1, 1)
        /\ (\A k \in 1..Len(markdown) : markdown[k] \in Whitespace) => blocks = <<>>

\* C6 witness: two blocks come out of a document that has a run of three line
\* breaks and starts with a blank run
C6_Witness ==
    /\ pc # "markdown_to_blocks"
    /\ Len(blocks) = 2
    /\ Find(markdown, <<"\n", "\n", "\n">>) # 0
    /\ markdown[1] = "\n"

----------------------------------------------------------------------------
(* Properties of text_to_textnodes (specification SpecTok) *)

\* s.count(d): the non-overlapping occurrences of d in s
Count(s, d) == Len(split(s, d)) - 1

\* An even number of occurrences of each of the three delimiters
Balanced(s) ==
    \A d \in {BoldDelimiter, ItalicDelimiter, CodeDelimiter} : Count(s, d) % 2 = 0

\* s with the "**", then the "_", then the backtick markers removed
RemoveMarkers(s) ==
    replace(replace(replace(s, BoldDelimiter, <<>>), ItalicDelimiter, <<>>),
            CodeDelimiter, <<>>)

\* The display texts of the spans, concatenated
DisplayText(ns) == Flatten([i \in 1..Len(ns) |-> ns[i].text])

\* "[" at index q opens [..](..) with no bracket inside the first pair and no
\* parenthesis inside the second
BracketShapeAt(s, q) ==
    \E j \in (q + 1)..Len(s) : \E k \in (j + 2)..Len(s) :
        /\ s[q] = "[" /\ s[j] = "]" /\ s[j + 1] = "(" /\ s[k] = ")"
        /\ \A x \in (q + 1)..(j - 1) : s[x] \notin {"[", "]"}
        /\ \A x \in (j + 2)..(k - 1) : s[x] \notin {"(", ")"}

\* s holds a match of ![alt](url)
ImageShapeIn(s) == \E p \in 1..(Len(s) - 1) : s[p] = "!" /\ BracketShapeAt(s, p + 1)

\* s holds a match of [text](url) not preceded by "!"
LinkShapeIn(s) ==
    \E q \in 1..Len(s) : BracketShapeAt(s, q) /\ (q = 1 \/ s[q - 1] # "!")

HasPattern(s) == ImageShapeIn(s) \/ LinkShapeIn(s)

\* C2 as stated: for every text with an even count of each of "**", "_" and
\* backtick, text_to_textnodes returns spans whose concatenated display text is
\* the text with the delimiter markers removed.
C2_Original ==
    (pc \in {"done", "raised"} /\ Balanced(text)) =>
        (pc = "done" /\ DisplayText(result[1]) = RemoveMarkers(text))

\* The even-numbered parts of s split on d: what lies between an opening d and
\* its closing d
Enclosed(s, d) ==
    Apply(LAMBDA parts : {parts[i] : i \in {k \in 1..Len(parts) : k % 2 = 0}}, split(s, d))

\* The odd-numbered parts of s split on d
Outside(s, d) ==
    Apply(LAMBDA parts : {parts[i] : i \in {k \in 1..Len(parts) : k % 2 = 1}}, split(s, d))

\* No "_" lies inside a "**" span of s
NoItalicMarkInBold(s) ==
    \A b \in Enclosed(s, BoldDelimiter) : Find(b, ItalicDelimiter) = 0

\* No backtick lies inside a "**" span of s or inside a "_" span of what is
\* outside the "**" spans
NoCodeMarkInStyled(s) ==
    /\ \A b \in Enclosed(s, BoldDelimiter) : Find(b, CodeDelimiter) = 0
    /\ \A o \in Outside(s, BoldDelimiter) :
          \A i \in Enclosed(o, ItalicDelimiter) : Find(i, CodeDelimiter) = 0

\* Each stretch of s that reaches a delimiter pass as Plain text holds the
\* delimiter of that pass an even number of times: s holds "**", each part of s
\* outside the "**" spans holds "_", and each part of these outside the "_"
\* spans holds the backtick, an even number of times
SegmentsBalanced(s) ==
    /\ Count(s, BoldDelimiter) % 2 = 0
    /\ \A o \in Outside(s, BoldDelimiter) :
          /\ Count(o, ItalicDelimiter) % 2 = 0
          /\ \A p \in Outside(o, ItalicDelimiter) : Count(p, CodeDelimiter) % 2 = 0

\* The texts C2 is about: balanced delimiters, no image or link match, no
\* delimiter inside a span styled by an earlier pass, and every Plain stretch
\* balanced
UnnestedBalanced(s) ==
    /\ Balanced(s)
    /\ ~HasPattern(s)
    /\ NoItalicMarkInBold(s)
    /\ NoCodeMarkInStyled(s)
    /\ SegmentsBalanced(s)

\* C2: for every text with balanced delimiters that holds no image or link
\* match, no "_" or backtick inside a "**" span, no backtick inside a "_" span,
\* and an even number of "_" in each part outside the "**" spans and of
\* backticks in each part outside the "_" spans, text_to_textnodes returns
\* spans whose concatenated display text is the text with the "**", "_" and
\* backtick markers removed.
C2_DisplayTextOfUnnestedSpans ==
    (pc \in {"done", "raised"} /\ UnnestedBalanced(text)) =>
        (pc = "done" /\ DisplayText(result[1]) = RemoveMarkers(text))

\* C2 witness: a returned sequence for such a text, with a non-empty Bold span,
\* a non-empty Italic span and a non-empty Code span
C2_Witness ==
    /\ pc = "done" /\ UnnestedBalanced(text)
    /\ \A t \in {BOLD, ITALIC, CODE} :
          \E i \in 1..Len(result[1]) :
              result[1][i].text_type = t /\ result[1][i].text # <<>>

Odd(n) == n % 2 = 1

\* C3 as stated: a text with an odd count of one of the delimiters makes
\* text_to_textnodes fail with the unclosed-delimiter error naming a delimiter
\* whose count is odd, and no span sequence is returned.
C3_Original ==
    (pc \in {"done", "raised"} /\ ~Balanced(text)) =>
        /\ pc = "raised"
        /\ result = None
        /\ error[1].msg = "Invalid markdown: unclosed delimiter"
        /\ Odd(Count(text, error[1].delimiter))

\* C3: for text with no image or link match: an odd count of "**" makes
\* text_to_textnodes fail with the unclosed-delimiter error naming "**"; with an
\* even count of "**", an odd count of "_" none of which lies inside a "**" span
\* makes it fail naming "_"; with an even count of "**", an odd count of
\* backticks none of which lies inside a "**" or "_" span makes it fail naming
\* "_" or the backtick.  A failed call returns no span sequence.
C3_UnclosedDelimiterOutsideSpans ==
    /\ pc = "raised" => result = None
    /\ (pc \in {"done", "raised"} /\ ~HasPattern(text)) =>
          /\ Odd(Count(text, BoldDelimiter)) =>
                pc = "raised" /\ error = Some(UnclosedDelimiter(BoldDelimiter))
          /\ (~Odd(Count(text, BoldDelimiter)) /\ Odd(Count(text, ItalicDelimiter))
                 /\ NoItalicMarkInBold(text)) =>
                pc = "raised" /\ error = Some(UnclosedDelimiter(ItalicDelimiter))
          /\ (~Odd(Count(text, BoldDelimiter)) /\ Odd(Count(text, CodeDelimiter))
                 /\ NoCodeMarkInStyled(text)) =>
                /\ pc = "raised"
                /\ error \in {Some(UnclosedDelimiter(ItalicDelimiter)),
                              Some(UnclosedDelimiter(CodeDelimiter))}

\* C3 witness: the call has raised for "_" on a pattern-free text with an odd
\* count of "_", after a "**" pass that closed a Bold span
C3_Witness ==
    /\ pc = "raised" /\ ~HasPattern(text)
    /\ error = Some(UnclosedDelimiter(ItalicDelimiter))
    /\ Odd(Count(text, ItalicDelimiter))
    /\ \E i \in 1..Len(nodes) : nodes[i].text_type = BOLD

\* C4: when text_to_textnodes has returned, no Plain span of the result holds
\* "**", "_", a backtick, a match of the image pattern or a match of the link
\* pattern.
C4_PlainSpansHoldNoInlineSyntax ==
    pc = "done" =>
        \A i \in 1..Len(result[1]) :
            result[1][i].text_type = TEXT =>
                /\ Find(result[1][i].text, BoldDelimiter) = 0
                /\ Find(result[1][i].text, ItalicDelimiter) = 0
                /\ Find(result[1][i].text, CodeDelimiter) = 0
                /\ ~ImageShapeIn(result[1][i].text)
                /\ ~LinkShapeIn(result[1][i].text)

\* C4 witness: a returned sequence with an Image span, a Link span and a
\* non-empty Plain span, for a text that held more than one pattern match
C4_Witness ==
    /\ pc = "done"
    /\ \E i \in 1..Len(result[1]) : result[1][i].text_type = IMAGE
    /\ \E i \in 1..Len(result[1]) : result[1][i].text_type = LINK
    /\ \E i \in 1..Len(result[1]) :
          result[1][i].text_type = TEXT /\ result[1][i].text # <<>>

----------------------------------------------------------------------------
(* Properties of block_to_block_type and _block_to_html_node (specification
   SpecBlock) *)

\* The lines of the block
Lines == split(block, <<"\n">>)

DecimalDigits == <<"0", "1", "2", "3", "4", "5", "6", "7", "8", "9">>

\* The digits line starts with
LeadingDigits(line) ==
    SubSeq(line, 1,
           Len(line) - Len(lstrip(line, {DecimalDigits[d] : d \in 1..Len(DecimalDigits)})))

\* The number a sequence of digits writes
RECURSIVE DecimalValue(_)
DecimalValue(ds) ==
    IF ds = <<>> THEN 0
    ELSE 10 * DecimalValue(SubSeq(ds, 1, Len(ds) - 1))
         + (CHOOSE d \in 1..10 : DecimalDigits[d] = ds[Len(ds)]) - 1

\* line starts with the decimal of n, ". " after it
StartsWithNumber(line, n) ==
    \E ds \in {LeadingDigits(line)} :
        /\ ds # <<>> /\ ds[1] # "0" /\ DecimalValue(ds) = n
        /\ Len(line) >= Len(ds) + 2
        /\ line[Len(ds) + 1] = "." /\ line[Len(ds) + 2] = " "

\* C7: a block that is not a Heading, Code, Quote or UnorderedList is an
\* OrderedList exactly when each of its lines, the i-th counted from 1, starts
\* with the decimal of i followed by ". "; otherwise it is a Paragraph.
C7_OrderedListNumberedFromOne ==
    (pc # "classify" /\ block_type \notin {HEADING, BLOCK_CODE, QUOTE, UNORDERED_LIST}) =>
        /\ block_type = ORDERED_LIST <=>
              \E ls \in {Lines} : \A i \in 1..Len(ls) : StartsWithNumber(ls[i], i)
        /\ block_type # ORDERED_LIST => block_type = PARAGRAPH

\* C7 witness: an ordered list whose numbers reach two digits
C7_Witness ==
    /\ pc # "classify"
    /\ block_type = ORDERED_LIST
    /\ Len(Lines) >= 10

\* The number of "#" the block starts with
LeadingHashes == Len(block) - Len(lstrip(block, {"#"}))

\* A space follows the run of "#"
SpaceAfterHashes == Len(block) > LeadingHashes /\ block[LeadingHashes + 1] = " "

\* One space, and not two, follows the run of "#"
OneSpaceAfterHashes ==
    /\ SpaceAfterHashes
    /\ Len(block) > LeadingHashes + 1 => block[LeadingHashes + 2] # " "

\* C8 as stated: a block is a Heading exactly when it begins with 1 to 6 "#"
\* followed by exactly one space; with no or more than six leading "#", or no
\* space after them, it is a Paragraph.
C8_Original ==
    pc # "classify" =>
        /\ block_type = HEADING <=> (LeadingHashes \in 1..6 /\ OneSpaceAfterHashes)
        /\ (LeadingHashes = 0 \/ LeadingHashes > 6 \/ ~SpaceAfterHashes) =>
              block_type = PARAGRAPH

\* C8: a block is a Heading exactly when it begins with 1 to 6 "#" followed by
\* a space (more spaces may follow); with more than six leading "#", or with
\* leading "#" and no space after them, it is a Paragraph; with no leading "#"
\* it is not a Heading.
C8_HeadingIsOneToSixHashesAndSpace ==
    pc # "classify" =>
        /\ block_type = HEADING <=> (LeadingHashes \in 1..6 /\ SpaceAfterHashes)
        /\ (LeadingHashes > 6 \/ (LeadingHashes >= 1 /\ ~SpaceAfterHashes)) =>
              block_type = PARAGRAPH
        /\ LeadingHashes = 0 => block_type # HEADING

\* C8 witness: a Heading of six "#" with two spaces after them
C8_Witness ==
    /\ pc # "classify"
    /\ block_type = HEADING
    /\ LeadingHashes = 6
    /\ SpaceAfterHashes /\ ~OneSpaceAfterHashes

\* The block starts with a fence and a line break and ends with a fence
FencedShape ==
    /\ Len(block) >= 4
    /\ SubSeq(block, 1, 4) = <<BACKTICK, BACKTICK, BACKTICK, "\n">>
    /\ SubSeq(block, Len(block) - 2, Len(block)) = <<BACKTICK, BACKTICK, BACKTICK>>

HeadingShape == LeadingHashes \in 1..6 /\ SpaceAfterHashes

\* The lines of the block that start with prefix
LinesWith(prefix) ==
    Apply(LAMBDA ls : {i \in 1..Len(ls) : StartsWith(ls[i], prefix)}, Lines)

AllLines == 1..Len(Lines)

\* C9: every block gets one of the six types, the first that matches in the
\* order Heading, Code, Quote, UnorderedList, OrderedList, Paragraph: a block
\* that is neither a Heading nor Code is a Quote iff all its lines start with
\* ">", otherwise an UnorderedList iff all its lines start with "- "; when only
\* some of its lines start with ">" or only some with "- ", it is a Paragraph;
\* the empty block is a Paragraph.
C9_FirstMatchWins ==
    pc # "classify" =>
        /\ block_type \in BlockType
        /\ HeadingShape => block_type = HEADING
        /\ (~HeadingShape /\ FencedShape) => block_type = BLOCK_CODE
        /\ (~HeadingShape /\ ~FencedShape) =>
              \E all \in {AllLines} :
              \E quoted \in {LinesWith(<<">">>)} :
              \E dashed \in {LinesWith(<<"-", " ">>)} :
                  /\ block_type \notin {HEADING, BLOCK_CODE}
                  /\ block_type = QUOTE <=> (block # <<>> /\ quoted = all)
                  /\ block_type # QUOTE =>
                        (block_type = UNORDERED_LIST <=> (block # <<>> /\ dashed = all))
                  /\ (quoted \notin {{}, all} \/ dashed \notin {{}, all}) =>
                        block_type = PARAGRAPH
        /\ block = <<>> => block_type = PARAGRAPH

\* C9 witness: a Paragraph, neither Heading nor Code, with a line that starts
\* with ">", a line that starts with "- " and a line with neither
C9_Witness ==
    /\ pc # "classify"
    /\ block_type = PARAGRAPH
    /\ ~HeadingShape /\ ~FencedShape
    /\ LinesWith(<<">">>) # {} /\ LinesWith(<<"-", " ">>) # {}
    /\ LinesWith(<<">">>) \cup LinesWith(<<"-", " ">>) # AllLines

\* C10: for a block classified Code, _block_to_html_node does not raise and
\* returns a "pre" Parent whose one child is a "code" Leaf; the Leaf's value is
\* the block without its first 4 and last 3 characters, character for
\* character, whatever delimiters, links or images it holds.
C10_CodeBlockVerbatim ==
    (pc \in {"done", "raised"} /\ block_type = BLOCK_CODE) =>
        /\ pc = "done"
        /\ error = None
        /\ result[1].kind = "ParentNode"
        /\ result[1].tag = Some(<<"p", "r", "e">>)
        /\ result[1].props = None
        /\ result[1].children # None
        /\ Len(result[1].children[1]) = 1
        /\ \E leaf \in {result[1].children[1][1]} :
              /\ leaf.kind = "LeafNode"
              /\ leaf.tag = Some(<<"c", "o", "d", "e">>)
              /\ leaf.children = None /\ leaf.props = None
              /\ leaf.value # None
              /\ Len(leaf.value[1]) = Len(block) - 7
              /\ block = SubSeq(block, 1, 4) \o leaf.value[1]
                         \o SubSeq(block, Len(block) - 2, Len(block))

\* C10 witness: a node returned for a code block whose content holds an image
\* and a "_" that is not closed
C10_Witness ==
    /\ pc = "done"
    /\ block_type = BLOCK_CODE
    /\ \E v \in {result[1].children[1][1].value[1]} :
          ImageShapeIn(v) /\ Odd(Count(v, ItalicDelimiter))

\* What the call of _block_to_html_node came to: the node returned or the
\* exception raised
Outcome == [ok |-> pc = "done", value |-> result, error |-> error]

\* Each line without its first character, trimmed, the lines joined by a space
SingleMarkerQuoteText ==
    Apply(LAMBDA ls : join(<<" ">>, [i \in 1..Len(ls) |-> strip(Drop(ls[i], 1))]), Lines)

\* C11 as stated: for a block classified Quote, _block_to_html_node strips one
\* leading ">" from each line, then the whitespace around it, joins the lines
\* with a space, tokenizes the joined text once and wraps the spans in one
\* "blockquote" Parent.
C11_Original ==
    (pc \in {"done", "raised"} /\ block_type = QUOTE) =>
        Outcome = Wrapped(<<"b","l","o","c","k","q","u","o","t","e">>,
                          text_to_children(SingleMarkerQuoteText))

\* The text of the item on a list line: the line without its first two
\* characters, or what follows the first ". " of the line
ItemText(line) ==
    IF block_type = UNORDERED_LIST THEN Drop(line, 2)
    ELSE Drop(line, Find(line, <<".", " ">>) + 1)

\* C12: for a block classified UnorderedList (OrderedList), each line gives one
\* item, tokenized on its own from the line without its first 2 characters
\* (from what follows the first ". "); when every item tokenizes,
\* _block_to_html_node returns a "ul" ("ol") Parent whose children are, in line
\* order, one "li" Parent per line holding the nodes of that item; otherwise
\* it raises the error of the first item that does not tokenize.
C12_OneItemPerLine ==
    (pc \in {"done", "raised"} /\ block_type \in {UNORDERED_LIST, ORDERED_LIST}) =>
        \E ls \in {Lines} :
        \E items \in {[i \in 1..Len(ls) |-> text_to_children(ItemText(ls[i]))]} :
        \E bad \in {{i \in 1..Len(ls) : ~items[i].ok}} :
            IF bad = {}
            THEN /\ pc = "done"
                 /\ result[1].kind = "ParentNode"
                 /\ result[1].tag =
                       Some(IF block_type = UNORDERED_LIST THEN <<"u","l">> ELSE <<"o","l">>)
                 /\ result[1].props = None
                 /\ result[1].children # None
                 /\ Len(result[1].children[1]) = Len(ls)
                 /\ \A i \in 1..Len(ls) :
                       result[1].children[1][i] =
                           ParentNode(Some(<<"l","i">>), items[i].value, None)
            ELSE /\ pc = "raised"
                 /\ error = items[Min(bad)].error

\* C12 witness: an ordered list returned with an item whose text holds ". "
\* and an item with an Italic span
C12_Witness ==
    /\ pc = "done"
    /\ block_type = ORDERED_LIST
    /\ \E i \in 1..Len(Lines) : Find(ItemText(Lines[i]), <<".", " ">>) # 0
    /\ \E i \in 1..Len(result[1].children[1]) :
          \E k \in 1..Len(result[1].children[1][i].children[1]) :
              result[1].children[1][i].children[1][k].tag = Some(<<"i">>)

----------------------------------------------------------------------------
(* Properties of the functions called on their own (specification SpecCall) *)

\* The lines of the argument of extract_title that begin with "#" and a space
TitleLinesOf(ls) ==
    {i \in 1..Len(ls) : Len(ls[i]) >= 2 /\ ls[i][1] = "#" /\ ls[i][2] = " "}

\* t is s without the whitespace at its two ends
Trimmed(s, t) ==
    /\ t = <<>> \/ (t[1] \notin Whitespace /\ t[Len(t)] \notin Whitespace)
    /\ \E i \in 0..Len(s) :
          /\ i + Len(t) <= Len(s)
          /\ SubSeq(s, i + 1, i + Len(t)) = t
          /\ \A k \in (1..i) \cup ((i + Len(t) + 1)..Len(s)) : s[k] \in Whitespace

\* C13: extract_title returns the trimmed remainder of the first line that
\* begins with "# ", whatever lines follow it and whatever lines beginning
\* with "##" come before it; it raises the no-heading error exactly when no
\* line begins with "# ", as for the empty document.
C13_TitleOfFirstHeadingLine ==
    (call # None /\ call.function = "extract_title" /\ pc # "call") =>
        \E ls \in {split(call.markdown, <<"\n">>)} :
        \E hs \in {TitleLinesOf(ls)} :
            /\ pc = "raised" <=> hs = {}
            /\ call.markdown = <<>> => pc = "raised"
            /\ pc = "raised" =>
                  result = None /\ error # None
                  /\ error[1].msg = "No h1 header found in markdown"
            /\ pc = "done" =>
                  /\ error = None /\ result # None
                  /\ \E first \in hs :
                        /\ \A h \in hs : first <= h
                        /\ Trimmed(Drop(ls[first], 2), result[1])

\* C13 witness: a title returned from a line with spaces around the title,
\* after a "## " line and before another "# " line
C13_Witness ==
    /\ call # None /\ call.function = "extract_title" /\ pc = "done"
    /\ \E ls \in {split(call.markdown, <<"\n">>)} :
          /\ Len(ls) = 3
          /\ StartsWith(ls[1], <<"#", "#", " ">>)
          /\ TitleLinesOf(ls) = {2, 3}
          /\ ls[2] # ls[3]
          /\ Len(result[1]) < Len(ls[2]) - 2
          /\ result[1] # <<>>

----------------------------------------------------------------------------
(* Properties of to_html (specification SpecHtml) *)

\* A Leaf has a value; a Parent has a tag, a list of children, and children
\* that are well-formed
RECURSIVE WellFormed(_)
WellFormed(n) ==
    IF n.kind = "LeafNode" THEN n.value # None
    ELSE /\ n.tag # None
         /\ n.children # None
         /\ \A i \in 1..Len(n.children[1]) : WellFormed(n.children[1][i])

\* The attributes after the tag name: a space and key="value" for each pair
AttrText(n) ==
    IF n.props = None THEN <<>>
    ELSE Flatten([i \in 1..Len(n.props[1]) |->
            <<" ">> \o n.props[1][i][1] \o <<"=", "\"">> \o n.props[1][i][2] \o <<"\"">>])

OpeningTag(n) == <<"<">> \o n.tag[1] \o AttrText(n) \o <<">">>

ClosingTag(n) == <<"<", "/">> \o n.tag[1] \o <<">">>

\* C14: to_html of a well-formed tree returns: for a Parent, its opening tag
\* with attributes, the renders of its children in list order, its closing tag
\* (an empty child list gives an empty element); for a Leaf with no tag, its
\* value; for a Leaf with a tag that is not void, the opening tag, the value
\* (which may be empty) and the closing tag.
C14_RenderIsRecursiveConcatenation ==
    (pc # "to_html" /\ WellFormed(result[1])) =>
        \E n \in {result[1]} :
            /\ pc = "done" /\ error = None /\ html # None
            /\ n.kind = "ParentNode" =>
                  \E inner \in {[i \in 1..Len(n.children[1]) |-> to_html(n.children[1][i])]} :
                      /\ \A i \in 1..Len(inner) : inner[i].ok
                      /\ html[1] = OpeningTag(n)
                                   \o Flatten([i \in 1..Len(inner) |-> inner[i].value[1]])
                                   \o ClosingTag(n)
            /\ (n.kind = "ParentNode" /\ n.children[1] = <<>>) =>
                  html[1] = OpeningTag(n) \o ClosingTag(n)
            /\ (n.kind = "LeafNode" /\ n.tag = None) => html[1] = n.value[1]
            /\ (n.kind = "LeafNode" /\ n.tag # None /\ n.tag[1] \notin VOID_HTML_TAGS) =>
                  html[1] = OpeningTag(n) \o n.value[1] \o ClosingTag(n)

\* C14 witness: the render of a Parent with attributes whose children are a
\* text Leaf and a Parent of two different leaves, one of them with two
\* attributes
C14_Witness ==
    /\ pc = "done"
    /\ result[1].kind = "ParentNode" /\ result[1].props # None
    /\ Len(result[1].children[1]) = 2
    /\ result[1].children[1][1] = TextLeaf
    /\ result[1].children[1][2].kind = "ParentNode"
    /\ Len(result[1].children[1][2].children[1]) = 2
    /\ result[1].children[1][2].children[1][1].props = LinkProps
    /\ result[1].children[1][2].children[1][2].value = Some(<<>>)

\* The message of the error to_html raises on n itself, "" if n is in order:
\* a Leaf with no value, a Parent with no tag, a Parent (with a tag) with no
\* children collection
OwnViolation(n) ==
    IF n.kind = "LeafNode"
    THEN IF n.value = None THEN "LeafNode must have a value" ELSE ""
    ELSE IF n.tag = None THEN "ParentNode must have a tag"
    ELSE IF n.children = None THEN "ParentNode must have children"
    ELSE ""

\* C15: to_html raises exactly when the tree is not well-formed; a Leaf with no
\* value raises the missing-value error, a Parent with no tag the missing-tag
\* error, a Parent with a tag and no children collection (an empty list is in
\* order) the missing-children error; a node in order with a descendant that is
\* not raises the error of the first child whose render raises; a render that
\* raises returns no string.
C15_RenderFailsOnStructuralViolation ==
    pc # "to_html" =>
        \E n \in {result[1]} :
            /\ pc = "raised" <=> ~WellFormed(n)
            /\ pc = "raised" => html = None /\ error # None
            /\ pc = "done" => html # None /\ error = None
            /\ OwnViolation(n) # "" =>
                  /\ pc = "raised"
                  /\ error[1].exc = "ValueError"
                  /\ error[1].msg = OwnViolation(n)
            /\ (OwnViolation(n) = "" /\ ~WellFormed(n)) =>
                  \E bad \in {{i \in 1..Len(n.children[1]) : ~WellFormed(n.children[1][i])}} :
                      /\ bad # {}
                      /\ error = to_html(n.children[1][Min(bad)]).error

\* C15 witness: the render of a Parent in order has raised the missing-value
\* error of a Leaf two levels down, after rendering a first child
C15_Witness ==
    /\ pc = "raised"
    /\ error[1].msg = "LeafNode must have a value"
    /\ OwnViolation(result[1]) = ""
    /\ Len(result[1].children[1]) = 2
    /\ result[1].children[1][1] = TextLeaf
    /\ OwnViolation(result[1].children[1][2]) = ""
    /\ result[1].children[1][2].kind = "ParentNode"

\* C16 as stated: the render of a node whose tag is a void tag is the opening
\* tag with its attributes and nothing else.
C16_Original ==
    (pc = "done" /\ result[1].tag # None /\ result[1].tag[1] \in VOID_HTML_TAGS) =>
        html[1] = OpeningTag(result[1])

\* The call is of function f and has returned or raised
Called(f) == call # None /\ call.function = f /\ pc # "call"

\* The call is a pass over one Plain span
OnePlainSpan ==
    Len(call.old_nodes) = 1 /\ call.old_nodes[1].text_type = TEXT

\* The markdown a span was made from
SourceOf(n) ==
    IF n.text_type = TEXT THEN n.text
    ELSE IF n.text_type = BOLD THEN BoldDelimiter \o n.text \o BoldDelimiter
    ELSE IF n.text_type = ITALIC THEN ItalicDelimiter \o n.text \o ItalicDelimiter
    ELSE IF n.text_type = CODE THEN CodeDelimiter \o n.text \o CodeDelimiter
    ELSE IF n.text_type = LINK THEN <<"[">> \o n.text \o <<"]", "(">> \o n.url[1] \o <<")">>
    ELSE <<"!", "[">> \o n.text \o <<"]", "(">> \o n.url[1] \o <<")">>

\* The markdown the first k spans of ns were made from
Sources(ns, k) == Flatten([i \in 1..k |-> SourceOf(ns[i])])

\* The spans ns are made from the text s, each region of s by one span, and
\* no Link span from a "[" that follows "!"
NoLinkFromImage(ns, s) ==
    /\ Sources(ns, Len(ns)) = s
    /\ \A k \in 1..Len(ns) :
          ns[k].text_type = LINK =>
              \E before \in {Len(Sources(ns, k - 1))} :
                  before = 0 \/ s[before] # "!"

\* C17: split_nodes_link on a Plain span makes each Link span from a
\* [text](url) whose "[" does not follow "!", and every other region of the
\* text stays Plain text; a text whose every [..](..) follows "!" is returned
\* unchanged.  In text_to_textnodes every region of the text is emitted by one
\* span only, an Image span or a Link span or another, and no Link span starts
\* right after "!".
C17_LinkNeverCapturesImage ==
    /\ (Called("split_nodes_link") /\ OnePlainSpan) =>
          /\ pc = "done"
          /\ NoLinkFromImage(result[1], call.old_nodes[1].text)
          /\ \A k \in 1..Len(result[1]) : result[1][k].text_type \in {TEXT, LINK}
          /\ ~LinkShapeIn(call.old_nodes[1].text) => result[1] = call.old_nodes
    /\ (Called("text_to_textnodes") /\ pc = "done") =>
          NoLinkFromImage(result[1], call.text)

\* C17 witness: split_nodes_link has returned a Link span and a Plain span
\* that still holds an image
C17_Witness ==
    /\ Called("split_nodes_link") /\ OnePlainSpan /\ pc = "done"
    /\ \E k \in 1..Len(result[1]) : result[1][k].text_type = LINK
    /\ \E k \in 1..Len(result[1]) :
          result[1][k].text_type = TEXT /\ ImageShapeIn(result[1][k].text)

\* The spans split_nodes_delimiter makes of one span: the span itself if it is
\* not Plain or has no delimiter, else one span per part of the text, Plain
\* and styled in turn
SpansOfParts(n, delimiter, text_type) ==
    IF n.text_type # TEXT THEN <<n>>
    ELSE Apply(LAMBDA parts :
                 IF Len(parts) = 1 THEN <<n>>
                 ELSE [k \in 1..Len(parts) |->
                         [text |-> parts[k],
                          text_type |-> IF k % 2 = 1 THEN TEXT ELSE text_type,
                          url |-> None]],
               split(n.text, delimiter))


\* The outcome of the call on one Plain span whose text has n parts: the span
\* unchanged for n = 1, the unclosed-delimiter error for an even n, and n spans,
\* Plain and styled in turn, for an odd n >= 3
PartsOutcome(n) ==
    /\ n = 1 => pc = "done" /\ result[1] = call.old_nodes
    /\ n % 2 = 0 =>
          /\ pc = "raised" /\ result = None
          /\ error = Some(UnclosedDelimiter(call.delimiter))
    /\ (n % 2 = 1 /\ n >= 3) =>
          /\ pc = "done"
          /\ Len(result[1]) = n
          /\ result[1][1].text_type = TEXT /\ result[1][n].text_type = TEXT
          /\ \A k \in 1..n :
                result[1][k].text_type = IF k % 2 = 1 THEN TEXT ELSE call.text_type

\* C18: split_nodes_delimiter on one Plain span whose text splits on the
\* literal delimiter string into n parts: n = 1 returns the span unchanged; an
\* even n raises the unclosed-delimiter error; an odd n >= 3 returns n spans,
\* the k-th holding the k-th part, Plain for odd k and styled for even k, the
\* empty parts kept.  (The empty string is not a delimiter: str.split cannot
\* split on it, and the call raises ValueError("empty separator").)
C18_PartsAlternatePlainStyled ==
    (Called("split_nodes_delimiter") /\ OnePlainSpan) =>
        IF call.delimiter = <<>>
        THEN pc = "raised" /\ result = None /\ error = Some(EmptySeparator)
        ELSE \E n \in {Count(call.old_nodes[1].text, call.delimiter) + 1} :
                /\ PartsOutcome(n)
                /\ (n % 2 = 1 /\ n >= 3) =>
                      result[1] = SpansOfParts(call.old_nodes[1], call.delimiter,
                                               call.text_type)

\* C18 witness: the text starts and ends with the delimiter, and the call has
\* returned an empty Plain span, a styled span and an empty Plain span
C18_Witness ==
    /\ Called("split_nodes_delimiter") /\ OnePlainSpan /\ pc = "done"
    /\ call.old_nodes[1].text # <<>>
    /\ Len(result[1]) = 3
    /\ result[1][1] = TextNode(<<>>, TEXT, None)
    /\ result[1][2].text_type = call.text_type /\ result[1][2].text # <<>>
    /\ result[1][3] = TextNode(<<>>, TEXT, None)


Passes == {"split_nodes_image", "split_nodes_link", "split_nodes_delimiter"}

\* What the called pass makes of the Plain span n alone
PlainSpanAlone(n) ==
    IF call.function = "split_nodes_image" THEN split_nodes_image(<<n>>)
    ELSE IF call.function = "split_nodes_link" THEN split_nodes_link(<<n>>)
    ELSE SpansOfParts(n, call.delimiter, call.text_type)

\* C19: a pass returns, span by span and in the order of its input, each
\* non-Plain span itself (same text, type and url) and what it makes of each
\* Plain span; it raises only for a Plain span, one with an unclosed delimiter
\* or any when the delimiter is empty, whatever the text and url of the other
\* spans hold.
C19_NonPlainSpansPassThrough ==
    \A f \in Passes : Called(f) =>
        /\ pc = "raised" <=>
              /\ f = "split_nodes_delimiter"
              /\ \E i \in 1..Len(call.old_nodes) :
                    /\ call.old_nodes[i].text_type = TEXT
                    /\ \/ call.delimiter = <<>>
                       \/ Odd(Count(call.old_nodes[i].text, call.delimiter))
        /\ pc = "done" =>
              result[1] = Flatten([i \in 1..Len(call.old_nodes) |->
                                     IF call.old_nodes[i].text_type # TEXT
                                     THEN <<call.old_nodes[i]>>
                                     ELSE PlainSpanAlone(call.old_nodes[i])])

\* C19 witness: a delimiter pass has split a Plain span and returned, next to
\* it, a non-Plain span whose text holds the delimiter unclosed
C19_Witness ==
    /\ Called("split_nodes_delimiter") /\ pc = "done"
    /\ Len(result[1]) > Len(call.old_nodes)
    /\ \E i \in 1..Len(call.old_nodes) :
          /\ call.old_nodes[i].text_type \notin {TEXT, call.text_type}
          /\ Odd(Count(call.old_nodes[i].text, call.delimiter))
          /\ \E k \in 1..Len(result[1]) : result[1][k] = call.old_nodes[i]


\* The pattern of the called pass occurs in s
PatternIn(s) ==
    IF call.function = "split_nodes_image" THEN ImageShapeIn(s) ELSE LinkShapeIn(s)

\* The places of the empty Plain spans of ns
EmptyPlain(ns) ==
    {k \in 1..Len(ns) : ns[k].text_type = TEXT /\ ns[k].text = <<>>}

\* C20: split_nodes_image and split_nodes_link return, for one Plain span
\* without a match, the span unchanged, and for one Plain span with a match,
\* spans made from its text with no empty Plain span and no two Plain spans
\* in a row; over any input they return as many empty Plain spans as they
\* were given; and text_to_textnodes("") returns one empty Plain span.
C20_NoEmptyPlainSpanCreated ==
    /\ \A f \in {"split_nodes_image", "split_nodes_link"} : Called(f) =>
          /\ pc = "done"
          /\ Cardinality(EmptyPlain(result[1])) = Cardinality(EmptyPlain(call.old_nodes))
          /\ (OnePlainSpan /\ ~PatternIn(call.old_nodes[1].text)) =>
                result[1] = call.old_nodes
          /\ (OnePlainSpan /\ PatternIn(call.old_nodes[1].text)) =>
                /\ EmptyPlain(result[1]) = {}
                /\ Sources(result[1], Len(result[1])) = call.old_nodes[1].text
                /\ \A k \in 1..(Len(result[1]) - 1) :
                      result[1][k].text_type # TEXT \/ result[1][k + 1].text_type # TEXT
                /\ \E k \in 1..Len(result[1]) : result[1][k].text_type # TEXT
    /\ (Called("text_to_textnodes") /\ call.text = <<>>) =>
          pc = "done" /\ result = Some(<<TextNode(<<>>, TEXT, None)>>)

\* C20 witness: the text of the Plain span is two images and nothing else, and
\* split_nodes_image has returned the two Image spans only
C20_Witness ==
    /\ Called("split_nodes_image") /\ OnePlainSpan /\ pc = "done"
    /\ Len(result[1]) = 2
    /\ result[1][1].text_type = IMAGE /\ result[1][2].text_type = IMAGE


----------------------------------------------------------------------------
(* The order of the passes of text_to_textnodes (specification SpecTok) *)

\* The number of passes that have run over nodes
PassesRun ==
    IF pc = "split_nodes_image" THEN 0
    ELSE IF pc = "split_nodes_link" THEN 1
    ELSE IF pc = "split_bold" THEN 2
    ELSE IF pc = "split_italic" THEN 3
    ELSE IF pc = "split_code" THEN 4
    ELSE IF pc \in {"return", "done"} THEN 5
    ELSE IF error[1].delimiter = BoldDelimiter THEN 2
    ELSE IF error[1].delimiter = ItalicDelimiter THEN 3
    ELSE 4

\* Some span of ns has type t
HasType(ns, t) == \E i \in 1..Len(ns) : ns[i].text_type = t

\* No span of ns of type t holds the string d
NoneHolds(ns, t, d) ==
    \A i \in 1..Len(ns) : ns[i].text_type = t => Find(ns[i].text, d) = 0

\* The texts between the 1st and 2nd, the 3rd and 4th, ... backtick of s
CodeRegions(s) ==
    Apply(LAMBDA parts :
            {parts[k] : k \in {j \in 1..(Len(parts) - 1) : j % 2 = 0}},
          split(s, CodeDelimiter))

\* C21: the passes of text_to_textnodes run in the order image, link, "**",
\* "_", backtick, each over every span: after k passes the Plain spans hold
\* nothing the first k passes look for and no span has a type that a later
\* pass makes.  So a Code span never holds "**" or "_" and an Italic span never
\* holds "**": a "**" or "_" between two backticks of the text is never
\* returned inside a Code span.
C21_PassesInFixedOrder ==
    (pc \in {"split_nodes_image", "split_nodes_link", "split_bold", "split_italic",
             "split_code", "return", "done", "raised"}) =>
    \E k \in {PassesRun} :
        /\ IF k >= 1 THEN \A i \in 1..Len(nodes) :
                             nodes[i].text_type = TEXT => ~ImageShapeIn(nodes[i].text)
                     ELSE ~HasType(nodes, IMAGE)
        /\ IF k >= 2 THEN \A i \in 1..Len(nodes) :
                             nodes[i].text_type = TEXT => ~LinkShapeIn(nodes[i].text)
                     ELSE ~HasType(nodes, LINK)
        /\ IF k >= 3 THEN NoneHolds(nodes, TEXT, BoldDelimiter)
                     ELSE ~HasType(nodes, BOLD)
        /\ IF k >= 4 THEN NoneHolds(nodes, TEXT, ItalicDelimiter)
                     ELSE ~HasType(nodes, ITALIC)
        /\ IF k >= 5 THEN NoneHolds(nodes, TEXT, CodeDelimiter)
                     ELSE ~HasType(nodes, CODE)
        /\ NoneHolds(nodes, CODE, BoldDelimiter)
        /\ NoneHolds(nodes, CODE, ItalicDelimiter)
        /\ NoneHolds(nodes, ITALIC, BoldDelimiter)
        /\ pc = "done" =>
              /\ result = Some(nodes)
              /\ \A r \in CodeRegions(text) :
                    (Find(r, BoldDelimiter) # 0 \/ Find(r, ItalicDelimiter) # 0) =>
                        ~\E i \in 1..Len(nodes) :
                            nodes[i].text_type = CODE /\ nodes[i].text = r

\* C21 witness: the text holds "**x**" between two backticks, the "**" pass has
\* made a Bold span of it, and the backtick pass is still to run
C21_Witness ==
    /\ pc = "split_code"
    /\ \E r \in CodeRegions(text) : Count(r, BoldDelimiter) = 2
    /\ \E i \in 1..Len(nodes) : nodes[i].text_type = BOLD /\ nodes[i].text # <<>>
    /\ \E i \in 1..Len(nodes) :
          nodes[i].text_type = TEXT /\ Find(nodes[i].text, CodeDelimiter) # 0


----------------------------------------------------------------------------
(* Content kept by the passes (specification SpecCall) *)

\* The texts of the spans ns
TextsOf(ns) == [k \in 1..Len(ns) |-> ns[k].text]

\* C22: when split_nodes_delimiter returns for one Plain span, the texts of
\* the returned spans joined with the delimiter are the text of the span; the
\* spans split_nodes_image (split_nodes_link) returns, each Image written
\* ![alt](url) (each Link [text](url)) and every other span as it came in,
\* concatenate to the same string as its input spans, and a Plain span gives
\* Plain and Image (Link) spans only.
C22_PassesKeepContent ==
    /\ (Called("split_nodes_delimiter") /\ OnePlainSpan /\ pc = "done") =>
          join(call.delimiter, TextsOf(result[1])) = call.old_nodes[1].text
    /\ \A f \in {"split_nodes_image", "split_nodes_link"} : Called(f) =>
          /\ Sources(result[1], Len(result[1]))
                = Sources(call.old_nodes, Len(call.old_nodes))
          /\ OnePlainSpan =>
                \A k \in 1..Len(result[1]) :
                    result[1][k].text_type
                        \in {TEXT, IF f = "split_nodes_image" THEN IMAGE ELSE LINK}

\* C22 witness: split_nodes_link has returned the text before a link, the Link
\* span and the text after it
C22_Witness ==
    /\ Called("split_nodes_link") /\ OnePlainSpan /\ pc = "done"
    /\ Len(result[1]) = 3
    /\ result[1][1].text_type = TEXT /\ result[1][1].text # <<>>
    /\ result[1][2].text_type = LINK
    /\ result[1][3].text_type = TEXT /\ result[1][3].text # <<>>


----------------------------------------------------------------------------
(* Failures of markdown_to_html_node and to_html (specification Spec) *)

\* The number of "#" b starts with
HashesOf(b) == Len(b) - Len(lstrip(b, {"#"}))

\* The blocks classified bt
BlocksOfType(bt) == {i \in 1..Len(blocks) : block_to_block_type(blocks[i]) = bt}

\* C23: markdown_to_html_node raises nothing but the unclosed-delimiter error,
\* and otherwise returns a tree whose every Leaf has a value and whose every
\* Parent has a tag and a child list, which to_html renders without an error.
\* A block classified Heading starts with 1 to 6 "#" and a space, every line
\* of a block classified OrderedList holds ". ", and a block classified Code
\* has at least 7 characters.
C23_OnlyUnclosedDelimiterFails ==
    /\ pc = "raised" =>
          /\ result = None /\ html = None
          /\ error \in {Some(UnclosedDelimiter(d)) :
                          d \in {BoldDelimiter, ItalicDelimiter, CodeDelimiter}}
    /\ result # None => WellFormed(result[1])
    /\ pc = "done" => result # None /\ html # None /\ error = None
    /\ \A i \in BlocksOfType(HEADING) :
          \E h \in {HashesOf(blocks[i])} :
              h \in 1..6 /\ Len(blocks[i]) > h /\ blocks[i][h + 1] = " "
    /\ \A i \in BlocksOfType(ORDERED_LIST) :
          \E ls \in {split(blocks[i], <<"\n">>)} :
              \A l \in 1..Len(ls) : Find(ls[l], <<".", " ">>) # 0
    /\ \A i \in BlocksOfType(BLOCK_CODE) : Len(blocks[i]) >= 7

\* C23 witness: a document with a heading, an ordered list and a code block
\* has been built and rendered
C23_Witness ==
    /\ pc = "done" /\ html # None
    /\ BlocksOfType(HEADING) # {}
    /\ BlocksOfType(ORDERED_LIST) # {}
    /\ BlocksOfType(BLOCK_CODE) # {}

====
